---- MODULE Spec2Model ----
(***************************************************************************)
(* Model of scripts/sync-bugs-kernel.py: the reconciliation of one         *)
(* vulnerability record of the CVE tracker (UCT) with its Launchpad bug.   *)
(*                                                                         *)
(* The state is the on-disk record (store), the record as loaded by the    *)
(* running process (data), the Launchpad bug (bug), the option flags (opt) *)
(* and the position of the driver loop (pc).  One behaviour is a series of *)
(* invocations of the script on the same record.                           *)
(***************************************************************************)
EXTENDS Integers, Sequences, FiniteSets, TLC

VARIABLES
    opt,           \* the global option flags (optparse result)
    saved_update,  \* __main__: saved_update
    fault,         \* which Launchpad call raises in this behaviour
    store,         \* the record as stored on disk
    data,          \* info[cve]: the record as loaded by this invocation
    nbugs,         \* number of Launchpad bugs created for the record so far
    bug,           \* buglist[cve]: the Launchpad bug the record resolves to
    tasks,         \* sync_kernel_bug: the task map
    pc,            \* position in __main__ / sync_kernel_bug
    pass,          \* 1: first call of sync_kernel_bug, 2: the call after the prompt
    touched,       \* sync_kernel_bug: touched
    ptouched,      \* whether a phase of the current call returned touched
    made_changes,  \* __main__: made_changes
    run,           \* number of the current invocation of the script
    log,           \* writes issued to either adapter by this invocation
    diag           \* "want to ..." diagnostics of the current sync_kernel_bug call

vars == <<opt, saved_update, fault, store, data, nbugs, bug, tasks, pc, pass,
          touched, ptouched, made_changes, run, log, diag>>

(***************************************************************************)
(* Bounds                                                                  *)
(***************************************************************************)
MaxRuns == 2

(***************************************************************************)
(* Configuration (cve_lib) and fixed tables                                *)
(***************************************************************************)
kernel_srcs == <<"linux", "linux-lts">>

releases == <<"lucid", "xenial", "artful">>

eol_releases == <<"lucid">>

devel_release == "artful"

status_closed == {"released", "not-affected", "ignored", "DNE"}

priority_to_importance ==
    [critical |-> "Critical", high |-> "High", medium |-> "Medium",
     low |-> "Low", negligible |-> "Wishlist"]

broken_nomination_list == {"CVE-2010-3448", "CVE-2011-1833", "CVE-2012-4398"}

broken_approve_list ==
    {"CVE-2010-3448", "CVE-2011-1833", "CVE-2012-4398", "CVE-2015-8709"}

Range(s) == {s[i] : i \in DOMAIN s}

Srcs == Range(kernel_srcs)

\* every source package a record or a bug may name
Packages == Srcs \cup {"openssl"}
Releases == Range(releases)
EolReleases == Range(eol_releases)

\* keys a record may hold for a package
RecKeys == (Releases \ {devel_release}) \cup {"devel", "upstream"}

States == {"needed", "needs-triage", "pending", "released", "not-affected",
           "ignored", "DNE", "deferred"}

Statuses == {"New", "Confirmed", "Triaged", "In Progress", "Fix Committed",
             "Fix Released", "Invalid", "Won't Fix"}

Absent == "absent"

NoTask == [status |-> "none", importance |-> "none"]

\* a text is a sequence of lines, a line is a sequence of words
BlankLine == <<>>
Placeholder == << <<"Placeholder">> >>
DescriptionNeeded == << <<"Description", "needed">> >>

RECURSIVE SetToSeq(_)
SetToSeq(S) ==
    IF S = {} THEN <<>>
    ELSE CHOOSE out \in {<<x>> \o SetToSeq(S \ {x}) : x \in {CHOOSE y \in S : TRUE}} : TRUE

\* one statement after another: Op applied to the value v has
Then(Op(_), v) == CHOOSE out \in {Op(x) : x \in {v}} : TRUE

\* a for loop: the body Op is applied to the value the iteration before left
RECURSIVE ForEach(_, _, _)
ForEach(Op(_, _), w, s) ==
    IF s = <<>> THEN w
    ELSE CHOOSE out \in {ForEach(Op, x, Tail(s)) : x \in {Op(w, Head(s))}} : TRUE

\* release = rel; if release == 'devel': release = cve_lib.devel_release
MapRelease(rel) == IF rel = "devel" THEN devel_release ELSE rel

\* the (src, rel) entries of a record, in iteration order
Entries(d) ==
    SetToSeq({<<s, k>> \in Packages \X RecKeys :
                  s \in DOMAIN d.pkgs /\ k \in DOMAIN d.pkgs[s]})

(***************************************************************************)
(* The change-application functions.  A world w is the part of the state   *)
(* a sync step works on: [bug, data, store, log, diag, touched, raised].   *)
(***************************************************************************)
\* set_task_importance counting an importance that is already there
set_task_importance_always_touched(w, src, release, importance) ==
    IF ~opt.update
    THEN [w EXCEPT !.touched = TRUE,
                   !.diag = @ \cup {<<"importance", src, release, importance>>}]
    ELSE [w EXCEPT !.touched = TRUE,
                   !.bug.tasks[src][release].importance = importance,
                   !.log = @ \cup {<<"importance", src, release, importance>>}]

set_task_importance(w, src, release, importance) ==
    LET task == w.bug.tasks[src][release] IN
    IF task.importance # importance
    THEN IF ~opt.update
         THEN [w EXCEPT !.touched = TRUE,
                        !.diag = @ \cup {<<"importance", src, release, importance>>}]
         ELSE [w EXCEPT !.touched = TRUE,
                        !.bug.tasks[src][release].importance = importance,
                        !.log = @ \cup {<<"importance", src, release, importance>>}]
    ELSE w

\* set_task_status without the dry-run return
set_task_status_no_gate(w, src, release, state) ==
    LET task == w.bug.tasks[src][release] IN
    IF task.status # state
    THEN [w EXCEPT !.touched = TRUE,
                   !.bug.tasks[src][release].status = state,
                   !.log = @ \cup {<<"status", src, release, state>>}]
    ELSE w

\* set_task_status that reports a wanted status without returning True
set_task_status_dry_silent(w, src, release, state) ==
    LET task == w.bug.tasks[src][release] IN
    IF task.status # state
    THEN IF ~opt.update
         THEN [w EXCEPT !.diag = @ \cup {<<"status", src, release, state>>}]
         ELSE [w EXCEPT !.touched = TRUE,
                        !.bug.tasks[src][release].status = state,
                        !.log = @ \cup {<<"status", src, release, state>>}]
    ELSE w

set_task_status(w, src, release, state) ==
    LET task == w.bug.tasks[src][release] IN
    IF task.status # state
    THEN IF ~opt.update
         THEN [w EXCEPT !.touched = TRUE,
                        !.diag = @ \cup {<<"status", src, release, state>>}]
         ELSE [w EXCEPT !.touched = TRUE,
                        !.bug.tasks[src][release].status = state,
                        !.log = @ \cup {<<"status", src, release, state>>}]
    ELSE w

set_task_status_iff_exists(w, src, release, state) ==
    IF release \notin tasks[src]
    THEN w
    ELSE LET task == w.bug.tasks[src][release] IN
         IF task.status # state
         THEN IF ~opt.update
              THEN [w EXCEPT !.touched = TRUE,
                             !.diag = @ \cup {<<"status", src, release, state>>}]
              ELSE [w EXCEPT !.touched = TRUE,
                             !.bug.tasks[src][release].status = state,
                             !.log = @ \cup {<<"status", src, release, state>>}]
         ELSE w

delete_task(w, src, release, reason) ==
    IF ~opt.update
    THEN [w EXCEPT !.touched = TRUE,
                   !.diag = @ \cup {<<"delete", src, release, reason>>}]
    ELSE [w EXCEPT !.touched = TRUE,
                   !.bug.tasks[src][release] = NoTask,
                   !.log = @ \cup {<<"delete", src, release, reason>>}]

set_task_eol(w, src, release) == delete_task(w, src, release, "EoL")

RECURSIVE LStrip(_)
LStrip(t) == IF t # <<>> /\ Head(t) = BlankLine THEN LStrip(Tail(t)) ELSE t

RECURSIVE RStrip(_)
RStrip(t) ==
    IF t # <<>> /\ t[Len(t)] = BlankLine THEN RStrip(SubSeq(t, 1, Len(t) - 1)) ELSE t

\* str.strip() on a multi-line text
Strip(t) == RStrip(LStrip(t))

UCT_DESC_IGNORE_TAG == "kernel-cve-skip-description"

set_bug_description_tag_ignored(w, text) ==
    LET description == Strip(text) IN
    IF w.bug.description # Placeholder /\ description = DescriptionNeeded
    THEN w
    ELSE IF w.bug.description # description
    THEN IF ~opt.update
         THEN [w EXCEPT !.touched = TRUE,
                        !.diag = @ \cup {<<"description", "", "", "">>}]
         ELSE [w EXCEPT !.touched = TRUE,
                        !.bug.description = description,
                        !.log = @ \cup {<<"description", "", "", "">>}]
    ELSE w

set_bug_description(w, text) ==
    LET description == Strip(text) IN
    IF w.bug.description # Placeholder /\ description = DescriptionNeeded
    THEN w
    ELSE IF UCT_DESC_IGNORE_TAG \in w.bug.tags
    THEN w
    ELSE IF w.bug.description # description
    THEN IF ~opt.update
         THEN [w EXCEPT !.touched = TRUE,
                        !.diag = @ \cup {<<"description", "", "", "">>}]
         ELSE [w EXCEPT !.touched = TRUE,
                        !.bug.description = description,
                        !.log = @ \cup {<<"description", "", "", "">>}]
    ELSE w

set_uct_state(w, src, rel, state) ==
    IF w.data.pkgs[src][rel] # state
    THEN IF ~opt.update
         THEN [w EXCEPT !.touched = TRUE,
                        !.diag = @ \cup {<<"uct_state", src, rel, state>>}]
         ELSE [w EXCEPT !.touched = TRUE,
                        !.data.pkgs[src][rel] = state,
                        !.store.pkgs[src][rel] = state,
                        !.log = @ \cup {<<"uct_state", src, rel, state>>}]
    ELSE w

\* cve_lib.contextual_priority(data, src, rel)[1]: the priority given for the
\* package and release, else the one given for the package, else the record's
contextual_priority(d, src, rel) ==
    IF <<src, rel>> \in DOMAIN d.pkg_priority THEN d.pkg_priority[<<src, rel>>]
    ELSE IF <<src>> \in DOMAIN d.pkg_priority THEN d.pkg_priority[<<src>>]
    ELSE d.priority

(***************************************************************************)
(* Phase 1: push the record to the bug                                     *)
(***************************************************************************)
\* the body of the EOL scan for one (src, rel)
EolSweepStep(w, e) ==
    LET src == e[1]
        rel == e[2]
    IN  IF src \notin Srcs
        THEN w
        ELSE IF rel \in tasks[src] /\ ~opt.allow_eol_tasks
        THEN set_task_eol(w, src, rel)
        ELSE w

EolSweep(w) ==
    ForEach(EolSweepStep, w,
            SetToSeq({<<s, r>> \in (DOMAIN tasks) \X EolReleases : TRUE}))

\* Skipped without the test for EOL releases
Skipped_eol_synced(src, release) ==
    \/ src \notin Srcs
    \/ src \notin DOMAIN tasks
    \/ release \in {"", "upstream"}
    \/ release \notin tasks[src]

\* the entries every phase skips before it looks at state or status
Skipped(src, release) ==
    \/ src \notin Srcs
    \/ src \notin DOMAIN tasks
    \/ release \in {"", "upstream"} \cup EolReleases
    \/ release \notin tasks[src]

\* Phase1Status with not-affected and ignored closing a task of any status
Phase1Status_invalid_always(w, src, release, state) ==
    IF state = "DNE"
    THEN set_task_status_iff_exists(w, src, release, "Invalid")
    ELSE IF state = "pending"
            /\ w.bug.tasks[src][release].status
                   \in {"Invalid", "New", "Confirmed", "Triaged", "In Progress"}
    THEN set_task_status(w, src, release, "Fix Committed")
    ELSE IF state = "released"
    THEN set_task_status(w, src, release, "Fix Released")
    ELSE IF state \in {"not-affected", "ignored"}
    THEN set_task_status(w, src, release, "Invalid")
    ELSE w

\* Phase1Status with pending pushed over every current status
Phase1Status_pending_always(w, src, release, state) ==
    IF state = "DNE"
    THEN set_task_status_iff_exists(w, src, release, "Invalid")
    ELSE IF state = "pending"
    THEN set_task_status(w, src, release, "Fix Committed")
    ELSE IF state = "released"
    THEN set_task_status(w, src, release, "Fix Released")
    ELSE IF state \in {"not-affected", "ignored"}
            /\ w.bug.tasks[src][release].status = "New"
    THEN set_task_status(w, src, release, "Invalid")
    ELSE w

Phase1Status(w, src, release, state) ==
    LET status == w.bug.tasks[src][release].status IN
    IF state = "DNE"
    THEN set_task_status_iff_exists(w, src, release, "Invalid")
    ELSE IF state = "pending"
            /\ status \in {"Invalid", "New", "Confirmed", "Triaged", "In Progress"}
    THEN set_task_status(w, src, release, "Fix Committed")
    ELSE IF state = "released"
    THEN set_task_status(w, src, release, "Fix Released")
    ELSE IF state \in {"not-affected", "ignored"} /\ status = "New"
    THEN set_task_status(w, src, release, "Invalid")
    ELSE w

\* Phase1Step without the continue for deferred
Phase1Step_deferred_synced(w, e) ==
    LET src == e[1]
        rel == e[2]
        release == MapRelease(rel)
    IN  IF Skipped(src, release) \/ release \in {"product", "snap"}
        THEN w
        ELSE set_task_importance(
                 Phase1Status(w, src, release, w.data.pkgs[src][rel]), src, release,
                 priority_to_importance[contextual_priority(w.data, src, rel)])

Phase1Step_importance_unless_status(w, e) ==
    LET src == e[1]
        rel == e[2]
        release == MapRelease(rel)
    IN  IF Skipped(src, release) \/ release \in {"product", "snap"}
        THEN w
        ELSE LET state == w.data.pkgs[src][rel]
                 w1 == Phase1Status(w, src, release, state)
             IN  IF state = "deferred" \/ w1 # w
                 THEN w1
                 ELSE set_task_importance(w1, src, release,
                          priority_to_importance[contextual_priority(w.data, src, rel)])

Phase1Step(w, e) ==
    LET src == e[1]
        rel == e[2]
        release == MapRelease(rel)
    IN  IF Skipped(src, release) \/ release \in {"product", "snap"}
        THEN w
        ELSE LET state == w.data.pkgs[src][rel]
                 w1 == Phase1Status(w, src, release, state)
             IN  IF state = "deferred"
                 THEN w1
                 ELSE set_task_importance(w1, src, release,
                          priority_to_importance[contextual_priority(w.data, src, rel)])

sync_to_bug_phase1(w) == ForEach(Phase1Step, EolSweep(w), Entries(w.data))

(***************************************************************************)
(* Phase 2: pull the bug into the record                                   *)
(***************************************************************************)
\* Phase2Step with New pulled as needs-triage over a needed entry too
Phase2Step_new_over_needed(w, e) ==
    LET src == e[1]
        rel == e[2]
        release == MapRelease(rel)
    IN  IF Skipped(src, release)
        THEN w
        ELSE LET state == w.data.pkgs[src][rel]
                 status == w.bug.tasks[src][release].status
             IN  IF state = "deferred"
                 THEN w
                 ELSE IF status \in {"Confirmed", "Triaged", "In Progress"}
                 THEN set_uct_state(w, src, rel, "needed")
                 ELSE IF status = "New"
                 THEN set_uct_state(w, src, rel, "needs-triage")
                 ELSE IF status = "Invalid" /\ state \notin {"DNE", "ignored"}
                 THEN set_uct_state(w, src, rel, "not-affected")
                 ELSE w

\* Phase2Step without the skip of EOL releases
Phase2Step_eol_read(w, e) ==
    LET src == e[1]
        rel == e[2]
        release == MapRelease(rel)
    IN  IF Skipped_eol_synced(src, release)
        THEN w
        ELSE LET state == w.data.pkgs[src][rel]
                 status == w.bug.tasks[src][release].status
             IN  IF state = "deferred"
                 THEN w
                 ELSE IF status \in {"Confirmed", "Triaged", "In Progress"}
                 THEN set_uct_state(w, src, rel, "needed")
                 ELSE IF status = "New" /\ state # "needed"
                 THEN set_uct_state(w, src, rel, "needs-triage")
                 ELSE IF status = "Invalid" /\ state \notin {"DNE", "ignored"}
                 THEN set_uct_state(w, src, rel, "not-affected")
                 ELSE w

\* Phase2Step that pulls nothing from a Confirmed task
Phase2Step_confirmed_kept(w, e) ==
    LET src == e[1]
        rel == e[2]
        release == MapRelease(rel)
    IN  IF Skipped(src, release)
        THEN w
        ELSE LET state == w.data.pkgs[src][rel]
                 status == w.bug.tasks[src][release].status
             IN  IF state = "deferred"
                 THEN w
                 ELSE IF status \in {"Triaged", "In Progress"}
                 THEN set_uct_state(w, src, rel, "needed")
                 ELSE IF status = "New" /\ state # "needed"
                 THEN set_uct_state(w, src, rel, "needs-triage")
                 ELSE IF status = "Invalid" /\ state \notin {"DNE", "ignored"}
                 THEN set_uct_state(w, src, rel, "not-affected")
                 ELSE w

\* Phase2Step with Invalid pulled as not-affected over every state
Phase2Step_invalid_pulled(w, e) ==
    LET src == e[1]
        rel == e[2]
        release == MapRelease(rel)
    IN  IF Skipped(src, release)
        THEN w
        ELSE LET state == w.data.pkgs[src][rel]
                 status == w.bug.tasks[src][release].status
             IN  IF state = "deferred"
                 THEN w
                 ELSE IF status \in {"Confirmed", "Triaged", "In Progress"}
                 THEN set_uct_state(w, src, rel, "needed")
                 ELSE IF status = "New" /\ state # "needed"
                 THEN set_uct_state(w, src, rel, "needs-triage")
                 ELSE IF status = "Invalid"
                 THEN set_uct_state(w, src, rel, "not-affected")
                 ELSE w

Phase2Step_dne_pulled(w, e) ==
    LET src == e[1]
        rel == e[2]
        release == MapRelease(rel)
    IN  IF Skipped(src, release)
        THEN w
        ELSE LET state == w.data.pkgs[src][rel]
                 status == w.bug.tasks[src][release].status
             IN  IF state = "deferred"
                 THEN w
                 ELSE IF status \in {"Confirmed", "Triaged", "In Progress"}
                 THEN set_uct_state(w, src, rel, "needed")
                 ELSE IF status = "New" /\ state # "needed"
                 THEN set_uct_state(w, src, rel, "needs-triage")
                 ELSE IF status = "Invalid" /\ state # "ignored"
                 THEN set_uct_state(w, src, rel, "not-affected")
                 ELSE w

Phase2Step(w, e) ==
    LET src == e[1]
        rel == e[2]
        release == MapRelease(rel)
    IN  IF Skipped(src, release)
        THEN w
        ELSE LET state == w.data.pkgs[src][rel]
                 status == w.bug.tasks[src][release].status
             IN  IF state = "deferred"
                 THEN w
                 ELSE IF status \in {"Confirmed", "Triaged", "In Progress"}
                 THEN set_uct_state(w, src, rel, "needed")
                 ELSE IF status = "New" /\ state # "needed"
                 THEN set_uct_state(w, src, rel, "needs-triage")
                 ELSE IF status = "Invalid" /\ state \notin {"DNE", "ignored"}
                 THEN set_uct_state(w, src, rel, "not-affected")
                 ELSE w

IsDirective(line) ==
    line # <<>> /\ Head(line) \in {"Add-Break-Fix:", "Del-Break-Fix:"}

\* line.split(':', 1)[1].strip(), then the pair of references
DirectiveShas(line) ==
    LET value == Tail(line) IN
    IF Len(value) >= 2 THEN value
    ELSE <<"-">> \o (IF value = <<>> THEN <<"">> ELSE value)

\* del_uct_sha(data, shas) / add_uct_sha(data, shas): both functions take
\* (data, src, sha_pair), so the call itself raises TypeError in either mode
DirectiveStep(w, line) ==
    IF w.raised # "none" \/ ~IsDirective(line)
    THEN w
    ELSE [w EXCEPT !.touched = TRUE, !.raised = "TypeError"]

sync_from_bug_phase2(w) ==
    ForEach(DirectiveStep, ForEach(Phase2Step, w, Entries(w.data)),
            w.bug.description)

(***************************************************************************)
(* Phase 3 and the description writer                                      *)
(***************************************************************************)
\* a reference is a sequence of the parts that '/' and '=' separate
_extract_sha(sha) == sha[Len(sha)]

\* the (broken, sha) pair of one patch entry, <<>> when it gives none
PatchSha(p) ==
    IF p.field = "upstream"
    THEN << <<"-", _extract_sha(p.value[1])>> >>
    ELSE IF p.field = "break-fix" /\ Len(p.value) >= 2
    THEN << <<_extract_sha(p.value[1]), _extract_sha(p.value[2])>> >>
    ELSE <<>>

RECURSIVE PatchShas(_)
PatchShas(ps) == IF ps = <<>> THEN <<>> ELSE PatchSha(Head(ps)) \o PatchShas(Tail(ps))

RECURSIVE SrcShas(_, _)
SrcShas(w, ss) ==
    IF ss = <<>> THEN <<>>
    ELSE (IF Head(ss) \in Srcs /\ Head(ss) \in DOMAIN tasks
          THEN PatchShas(w.data.patches[Head(ss)]) ELSE <<>>)
         \o SrcShas(w, Tail(ss))

\* text.strip().replace('\n', ' ').strip(): the words of all lines on one line
RECURSIVE Flatten(_)
Flatten(t) == IF t = <<>> THEN <<>> ELSE Head(t) \o Flatten(Tail(t))

BreakFixLine(pair) == <<"Break-Fix:", pair[1], pair[2]>>

GeneratedDescription(w) ==
    LET shas == SrcShas(w, SetToSeq(DOMAIN w.data.pkgs))
        d1 == Flatten(w.data.Description)
        d2 == Flatten(w.data.UbuntuDescription)
        first == IF d1 # <<>> THEN d1
                 ELSE IF d2 # <<>> THEN d2
                 ELSE <<"Description", "needed">>
    IN  <<first, BlankLine>> \o [i \in 1..Len(shas) |-> BreakFixLine(shas[i])]

_update_description_from_uct(w) ==
    CHOOSE out \in {set_bug_description(w, text) : text \in {GeneratedDescription(w)}} : TRUE

\* Phase3Step with New pushed for needed entries as well
Phase3Step_needed_reset(w, e) ==
    LET src == e[1]
        rel == e[2]
        release == MapRelease(rel)
    IN  IF Skipped(src, release)
        THEN w
        ELSE IF w.data.pkgs[src][rel] \in {"needs-triage", "needed"}
        THEN set_task_status(w, src, release, "New")
        ELSE w

Phase3Step(w, e) ==
    LET src == e[1]
        rel == e[2]
        release == MapRelease(rel)
    IN  IF Skipped(src, release)
        THEN w
        ELSE IF w.data.pkgs[src][rel] = "needs-triage"
        THEN set_task_status(w, src, release, "New")
        ELSE w

sync_to_bug_phase3(w) ==
    Then(_update_description_from_uct, ForEach(Phase3Step, w, Entries(w.data)))

(***************************************************************************)
(* The pass over a new bug                                                 *)
(***************************************************************************)
NewBugStep(w, e) ==
    LET src == e[1]
        rel == e[2]
        release == MapRelease(rel)
    IN  IF Skipped(src, release)
        THEN w
        ELSE LET state == w.data.pkgs[src][rel] IN
             IF w.bug.tasks[src][release].status # "New"
             THEN w
             ELSE IF state = "DNE"
             THEN set_task_status_iff_exists(w, src, release, "Invalid")
             ELSE IF state = "not-affected"
             THEN set_task_status(w, src, release, "Invalid")
             ELSE IF state = "pending"
             THEN set_task_status(w, src, release, "Fix Committed")
             ELSE IF state = "released"
             THEN set_task_status(w, src, release, "Fix Released")
             ELSE w

sync_new_bug(w) ==
    Then(_update_description_from_uct, ForEach(NewBugStep, w, Entries(w.data)))

(***************************************************************************)
(* Task map and provisioning                                               *)
(***************************************************************************)
HasTask(b, src) ==
    src \in b.pkgs \/ \E r \in Releases : b.tasks[src][r] # NoTask

generate_task_map(b) ==
    [src \in {s \in Packages : HasTask(b, s)} |->
        {r \in Releases : b.tasks[src][r] # NoTask}]

uct_src_all_nominations_DNE(src, d) ==
    \A rel \in Releases :
        (src \in DOMAIN d.pkgs /\ rel \in DOMAIN d.pkgs[src])
            => d.pkgs[src][rel] = "DNE"

\* Launchpad: approving a proposed nomination opens a task for the release
\* under every package that has a task on the bug
Approve(b, rel) ==
    IF b.noms[rel] # "proposed"
    THEN b
    ELSE [b EXCEPT !.noms[rel] = "approved",
                   !.tasks = [s \in Packages |->
                       IF HasTask(b, s) /\ b.tasks[s][rel] = NoTask
                       THEN [b.tasks[s] EXCEPT ![rel] =
                                [status |-> "New", importance |-> "Undecided"]]
                       ELSE b.tasks[s]]]

Nominate_broken_approved(r, rel) ==
    LET b == r.w.bug
        found == b.noms[rel] # "none"
        broken_nom == ~found /\ b.title \in broken_nomination_list
        added == ~found /\ ~broken_nom /\ fault # "addNomination"
        r1 == IF found
              THEN [r EXCEPT !.nom = rel]
              ELSE IF broken_nom
              THEN r
              ELSE IF added
              THEN [r EXCEPT !.nom = rel,
                             !.w.bug.noms[rel] = "proposed",
                             !.w.log = @ \cup {<<"addNomination", "", rel, "ok">>},
                             !.calls = Append(@, <<"addNomination", rel, "ok">>)]
              ELSE [r EXCEPT !.w.log = @ \cup {<<"addNomination", "", rel, "failed">>},
                             !.calls = Append(@, <<"addNomination", rel, "failed">>)]
    IN  IF broken_nom
        THEN r1
        ELSE IF r1.nom = "unbound"
        THEN [r1 EXCEPT !.verified[rel] = TRUE]
        ELSE IF fault = "approve"
        THEN [r1 EXCEPT !.verified[rel] = TRUE,
                        !.w.log = @ \cup {<<"approve", "", r1.nom, "failed">>},
                        !.calls = Append(@, <<"approve", r1.nom, "failed">>)]
        ELSE [r1 EXCEPT !.verified[rel] = TRUE,
                        !.w.bug = Approve(r1.w.bug, r1.nom),
                        !.w.log = @ \cup {<<"approve", "", r1.nom, "ok">>},
                        !.calls = Append(@, <<"approve", r1.nom, "ok">>)]

Nominate_failure_unverified(r, rel) ==
    LET b == r.w.bug
        found == b.noms[rel] # "none"
        broken_nom == ~found /\ b.title \in broken_nomination_list
        added == ~found /\ ~broken_nom /\ fault # "addNomination"
        r1 == IF found
              THEN [r EXCEPT !.nom = rel]
              ELSE IF broken_nom
              THEN r
              ELSE IF added
              THEN [r EXCEPT !.nom = rel,
                             !.w.bug.noms[rel] = "proposed",
                             !.w.log = @ \cup {<<"addNomination", "", rel, "ok">>},
                             !.calls = Append(@, <<"addNomination", rel, "ok">>)]
              ELSE [r EXCEPT !.w.log = @ \cup {<<"addNomination", "", rel, "failed">>},
                             !.calls = Append(@, <<"addNomination", rel, "failed">>)]
    IN  IF broken_nom \/ b.title \in broken_approve_list
        THEN r1
        ELSE IF r1.nom = "unbound"
        THEN r1
        ELSE IF fault = "approve"
        THEN [r1 EXCEPT !.w.log = @ \cup {<<"approve", "", r1.nom, "failed">>},
                        !.calls = Append(@, <<"approve", r1.nom, "failed">>)]
        ELSE [r1 EXCEPT !.verified[rel] = TRUE,
                        !.w.bug = Approve(r1.w.bug, r1.nom),
                        !.w.log = @ \cup {<<"approve", "", r1.nom, "ok">>},
                        !.calls = Append(@, <<"approve", r1.nom, "ok">>)]

\* lines 677-703: find or create the nomination for rel and approve it.
\* r is [w, verified, refresh, nom, calls]; nom is the release the variable
\* nom is bound to, "unbound" before its first assignment; calls lists the
\* addTask, addNomination and approve calls in the order they were made
Nominate(r, rel) ==
    LET b == r.w.bug
        found == b.noms[rel] # "none"
        broken_nom == ~found /\ b.title \in broken_nomination_list
        added == ~found /\ ~broken_nom /\ fault # "addNomination"
        r1 == IF found
              THEN [r EXCEPT !.nom = rel]
              ELSE IF broken_nom
              THEN r
              ELSE IF added
              THEN [r EXCEPT !.nom = rel,
                             !.w.bug.noms[rel] = "proposed",
                             !.w.log = @ \cup {<<"addNomination", "", rel, "ok">>},
                             !.calls = Append(@, <<"addNomination", rel, "ok">>)]
              ELSE [r EXCEPT !.w.log = @ \cup {<<"addNomination", "", rel, "failed">>},
                             !.calls = Append(@, <<"addNomination", rel, "failed">>)]
    IN  IF broken_nom \/ b.title \in broken_approve_list
        THEN r1
        ELSE IF r1.nom = "unbound"
        THEN [r1 EXCEPT !.verified[rel] = TRUE]
        ELSE IF fault = "approve"
        THEN [r1 EXCEPT !.verified[rel] = TRUE,
                        !.w.log = @ \cup {<<"approve", "", r1.nom, "failed">>},
                        !.calls = Append(@, <<"approve", r1.nom, "failed">>)]
        ELSE [r1 EXCEPT !.verified[rel] = TRUE,
                        !.w.bug = Approve(r1.w.bug, r1.nom),
                        !.w.log = @ \cup {<<"approve", "", r1.nom, "ok">>},
                        !.calls = Append(@, <<"approve", r1.nom, "ok">>)]

\* RefreshRel without the skip of EOL releases
RefreshRel_eol_nominated(r, t, src, rel) ==
    LET data_rel == IF rel = devel_release THEN "devel" ELSE rel
        d == r.w.data
        r0 == [r EXCEPT !.verified =
                  [x \in Releases |-> x \in DOMAIN r.verified /\ r.verified[x]]]
    IN  IF r0.verified[rel]
        THEN r0
        ELSE IF rel \in t[src]
        THEN [r0 EXCEPT !.verified[rel] = TRUE]
        ELSE IF data_rel \notin DOMAIN d.pkgs[src]
                \/ d.pkgs[src][data_rel] \in {"DNE", "not-affected"}
        THEN r0
        ELSE IF opt.allow_missing_nominations
        THEN r0
        ELSE IF ~opt.update
        THEN [r0 EXCEPT !.refresh = TRUE,
                        !.verified[rel] = TRUE,
                        !.w.diag = @ \cup {<<"nomination", src, rel, "">>}]
        ELSE Nominate([r0 EXCEPT !.refresh = TRUE], rel)

RefreshRel_ignored_skipped(r, t, src, rel) ==
    LET data_rel == IF rel = devel_release THEN "devel" ELSE rel
        d == r.w.data
    IN  IF rel \in EolReleases
        THEN r
        ELSE IF r.verified[rel]
        THEN r
        ELSE IF rel \in t[src]
        THEN [r EXCEPT !.verified[rel] = TRUE]
        ELSE IF data_rel \notin DOMAIN d.pkgs[src]
                \/ d.pkgs[src][data_rel] \in {"DNE", "not-affected", "ignored"}
        THEN r
        ELSE IF opt.allow_missing_nominations
        THEN r
        ELSE IF ~opt.update
        THEN [r EXCEPT !.refresh = TRUE,
                       !.verified[rel] = TRUE,
                       !.w.diag = @ \cup {<<"nomination", src, rel, "">>}]
        ELSE Nominate([r EXCEPT !.refresh = TRUE], rel)

\* lines 636-703: the body of the release loop for (src, rel); t is the task map
RefreshRel(r, t, src, rel) ==
    LET data_rel == IF rel = devel_release THEN "devel" ELSE rel
        d == r.w.data
    IN  IF rel \in EolReleases
        THEN r
        ELSE IF r.verified[rel]
        THEN r
        ELSE IF rel \in t[src]
        THEN [r EXCEPT !.verified[rel] = TRUE]
        ELSE IF data_rel \notin DOMAIN d.pkgs[src]
                \/ d.pkgs[src][data_rel] \in {"DNE", "not-affected"}
        THEN r
        ELSE IF opt.allow_missing_nominations
        THEN r
        ELSE IF ~opt.update
        THEN [r EXCEPT !.refresh = TRUE,
                       !.verified[rel] = TRUE,
                       !.w.diag = @ \cup {<<"nomination", src, rel, "">>}]
        ELSE Nominate([r EXCEPT !.refresh = TRUE], rel)

RECURSIVE RefreshRels(_, _, _, _)
RefreshRels(r, t, src, rels) ==
    IF rels = <<>> THEN r
    ELSE CHOOSE out \in {RefreshRels(x, t, src, Tail(rels)) :
                             x \in {RefreshRel(r, t, src, Head(rels))}} : TRUE

\* lines 607-703: the body of the package loop for src
RefreshSrc(r, t, src) ==
    IF src \notin DOMAIN t
    THEN IF uct_src_all_nominations_DNE(src, r.w.data)
         THEN r
         ELSE IF opt.allow_missing_tasks
         THEN r
         ELSE IF ~opt.update
         THEN [r EXCEPT !.refresh = TRUE,
                        !.w.diag = @ \cup {<<"task", src, "", "">>}]
         ELSE IF fault = "addTask"
         THEN [r EXCEPT !.refresh = TRUE,
                        !.w.log = @ \cup {<<"addTask", src, "", "failed">>},
                        !.calls = Append(@, <<"addTask", src, "failed">>)]
         ELSE [r EXCEPT !.refresh = TRUE,
                        !.w.bug.pkgs = @ \cup {src},
                        !.w.log = @ \cup {<<"addTask", src, "", "ok">>},
                        !.calls = Append(@, <<"addTask", src, "ok">>)]
    ELSE IF src \notin DOMAIN r.w.data.pkgs
    THEN r
    ELSE RefreshRels(r, t, src, releases)

RECURSIVE RefreshSrcs(_, _, _)
RefreshSrcs(r, t, srcs) ==
    IF srcs = <<>> THEN r
    ELSE CHOOSE out \in {RefreshSrcs(x, t, Tail(srcs)) :
                             x \in {RefreshSrc(r, t, Head(srcs))}} : TRUE

\* returns [w, verified, refresh, nom, calls]; refresh is the function's result
refresh_task_packages(w, t) ==
    RefreshSrcs([w |-> w,
                 verified |-> [rel \in Releases \ EolReleases |-> FALSE],
                 refresh |-> FALSE,
                 nom |-> "unbound",
                 calls |-> <<>>],
                t, kernel_srcs)

(***************************************************************************)
(* sync_kernel_bug, one action per step                                    *)
(***************************************************************************)
\* touched is what the step itself returns
World ==
    [bug |-> bug, data |-> data, store |-> store, log |-> log, diag |-> diag,
     touched |-> FALSE, raised |-> "none"]

\* the state a phase leaves behind: if phase(...): touched = True
Becomes(w) ==
    /\ bug' = w.bug
    /\ data' = w.data
    /\ store' = w.store
    /\ log' = w.log
    /\ diag' = w.diag
    /\ touched' = (touched \/ w.touched)
    /\ ptouched' = (ptouched \/ w.touched)

\* sync_kernel_bug, lines 728-740: the passes over one bug, in order; an
\* exception of phase 2 ends them
sync_phases(w) ==
    LET AfterNew(x) == IF x.bug.description = Placeholder THEN sync_new_bug(x) ELSE x
        Last(x) == IF x.raised # "none" THEN x ELSE sync_to_bug_phase3(x)
    IN  Then(Last, Then(sync_from_bug_phase2,
                        Then(sync_to_bug_phase1, Then(AfterNew, w))))

IsLaunchpad(uri) == uri[1] = "launchpad.net"

\* __main__, lines 772-782 and 821-823: the Bugs field rebuilt
BugsText(d, id) ==
    SelectSeq(d.Bugs, LAMBDA u : ~IsLaunchpad(u)) \o << <<"launchpad.net", id>> >>

\* lines 716-724: the Bugs field, the task map and the provisioning
Provisioned ==
    LET bugs_field == BugsText(data, bug.id)
        w0 == [World EXCEPT !.diag = {}]
        w1 == IF bugs_field # data.Bugs /\ opt.update
              THEN [w0 EXCEPT !.store.Bugs = bugs_field,
                              !.log = @ \cup {<<"Bugs", "", "", "">>}]
              ELSE w0
    IN  refresh_task_packages(w1, generate_task_map(bug))

\* lines 716-726: the provisioning and the task map built again
Refresh ==
    /\ pc = "sync"
    /\ \E r \in {Provisioned} :
       LET w2 == r.w
       IN  /\ bug' = w2.bug
           /\ data' = w2.data
           /\ store' = w2.store
           /\ log' = w2.log
           /\ diag' = w2.diag
           /\ touched' = r.refresh
           /\ ptouched' = FALSE
           /\ tasks' = generate_task_map(w2.bug)
           /\ pc' = IF w2.bug.description = Placeholder THEN "new" ELSE "phase1"
    /\ UNCHANGED <<opt, saved_update, fault, nbugs, pass, made_changes, run>>

SyncNew ==
    /\ pc = "new"
    /\ \E w \in {sync_new_bug(World)} : Becomes(w)
    /\ pc' = "phase1"
    /\ UNCHANGED <<opt, saved_update, fault, nbugs, tasks, pass, made_changes, run>>

Phase1 ==
    /\ pc = "phase1"
    /\ \E w \in {sync_to_bug_phase1(World)} : Becomes(w)
    /\ pc' = "phase2"
    /\ UNCHANGED <<opt, saved_update, fault, nbugs, tasks, pass, made_changes, run>>

\* an exception in phase 2 is caught nowhere: the script ends
Phase2 ==
    /\ pc = "phase2"
    /\ \E w \in {sync_from_bug_phase2(World)} :
           /\ Becomes(w)
           /\ pc' = IF w.raised # "none" THEN "crashed" ELSE "phase3"
    /\ UNCHANGED <<opt, saved_update, fault, nbugs, tasks, pass, made_changes, run>>

Phase3 ==
    /\ pc = "phase3"
    /\ \E w \in {sync_to_bug_phase3(World)} : Becomes(w)
    /\ pc' = "ret"
    /\ UNCHANGED <<opt, saved_update, fault, nbugs, tasks, pass, made_changes, run>>

(***************************************************************************)
(* __main__                                                                *)
(***************************************************************************)
\* lines 749-762: the record has an open state for a kernel package
IsOpen(d) ==
    \E src \in Srcs :
        /\ src \in DOMAIN d.pkgs
        /\ \E rel \in DOMAIN d.pkgs[src] :
               rel # "upstream" /\ d.pkgs[src][rel] \notin status_closed

Load ==
    /\ pc = "load"
    /\ data' = store
    /\ log' = {}
    /\ diag' = {}
    /\ touched' = FALSE
    /\ ptouched' = FALSE
    /\ made_changes' = FALSE
    /\ pass' = 1
    /\ pc' = IF IsOpen(store) THEN "resolve" ELSE "exit"
    /\ UNCHANGED <<opt, saved_update, fault, store, nbugs, bug, tasks, run>>

\* create_kernel_bug, lines 133-137: PublicDate is before the cutoff
BeforeCutoff(when, cutoff) ==
    \/ when[1] < cutoff[1]
    \/ (when[1] = cutoff[1] /\ when[2] < cutoff[2])
    \/ (when[1] = cutoff[1] /\ when[2] = cutoff[2] /\ when[3] < cutoff[3])

NoTasks == [s \in Packages |-> [r \in Releases |-> NoTask]]

\* the bug ./stable/create-cve-tracker files
CreatedBug(id, title) ==
    [id |-> id, title |-> title, description |-> Placeholder, tags |-> {},
     pkgs |-> {kernel_srcs[1]}, tasks |-> NoTasks,
     noms |-> [r \in Releases |-> "none"]]

create_kernel_bug_dry_creates(d) ==
    IF BeforeCutoff(d.PublicDate, opt.bug_creation_cutoff) THEN "skip"
    ELSE IF fault = "create" THEN "raise"
    ELSE "created"

\* create_kernel_bug: "skip", "needed", "raise" or "created"
create_kernel_bug(d) ==
    IF BeforeCutoff(d.PublicDate, opt.bug_creation_cutoff) THEN "skip"
    ELSE IF ~opt.update THEN "needed"
    ELSE IF fault = "create" THEN "raise"
    ELSE "created"

LpBugs(d) == SelectSeq(d.Bugs, IsLaunchpad)

\* lines 764-767: cve in buglist, once load_kernel_bugs() has found the
\* tracking bug Launchpad holds for the record (--search without --cve)
InBuglist == opt.search /\ bug.id # 0

\* line 805: bugs[0] != buglist[cve].id
Mismatch(bugs) == Len(bugs) = 1 /\ InBuglist /\ bugs[1][2] # bug.id

\* lines 784-829: find or create the bug, then enter the first sync
Resolve ==
    /\ pc = "resolve"
    /\ LET bugs == LpBugs(data)
           made == IF Len(bugs) = 0 /\ ~InBuglist
                   THEN create_kernel_bug(data) ELSE "no"
           go == \/ Len(bugs) = 0 /\ (InBuglist \/ made = "created")
                 \/ Len(bugs) = 1 /\ ~Mismatch(bugs)
       IN  /\ pc' = IF go THEN "sync" ELSE IF made = "raise" THEN "failed" ELSE "exit"
           /\ IF made = "created"
              THEN /\ nbugs' = nbugs + 1
                   /\ bug' = CreatedBug(nbugs + 1, data.Candidate)
                   /\ log' = log \cup {<<"createBug", "", "", "">>}
              ELSE UNCHANGED <<nbugs, bug, log>>
           /\ IF go
              THEN /\ saved_update' = opt.update
                   /\ opt' = IF opt.confirm_update
                             THEN [opt EXCEPT !.update = FALSE] ELSE opt
              ELSE UNCHANGED <<saved_update, opt>>
    /\ UNCHANGED <<fault, store, data, tasks, pass, touched, ptouched, made_changes,
                   run, diag>>

\* Return without line 844
Return_flag_kept ==
    /\ pc = "ret"
    /\ IF pass = 1 /\ touched /\ opt.confirm_update
       THEN pc' = "prompt"
       ELSE pc' = "exit"
    /\ opt' = opt
    /\ made_changes' = IF pass = 1 THEN touched ELSE made_changes
    /\ UNCHANGED <<saved_update, fault, store, data, nbugs, bug, tasks, pass,
                   touched, ptouched, run, log, diag>>

\* lines 829-844: the first sync has returned, or the confirmed one has
Return ==
    /\ pc = "ret"
    /\ IF pass = 1 /\ touched /\ opt.confirm_update
       THEN /\ pc' = "prompt"
            /\ opt' = opt
       ELSE /\ pc' = "exit"
            /\ opt' = [opt EXCEPT !.update = saved_update]
    /\ made_changes' = IF pass = 1 THEN touched ELSE made_changes
    /\ UNCHANGED <<saved_update, fault, store, data, nbugs, bug, tasks, pass,
                   touched, ptouched, run, log, diag>>

\* lines 836-842: ans.strip().lower().startswith('y')
Prompt ==
    /\ pc = "prompt"
    /\ \E yes \in BOOLEAN :
          IF yes
          THEN /\ opt' = [opt EXCEPT !.update = TRUE]
               /\ pass' = 2
               /\ pc' = "sync"
          ELSE /\ opt' = [opt EXCEPT !.update = saved_update]
               /\ pass' = pass
               /\ pc' = "exit"
    /\ UNCHANGED <<saved_update, fault, store, data, nbugs, bug, tasks, touched,
                   ptouched, made_changes, run, log, diag>>

\* the script is started again on the same record, with the same options
NextRun ==
    /\ pc \in {"exit", "crashed", "failed"}
    /\ run < MaxRuns
    /\ run' = run + 1
    /\ pc' = "load"
    /\ opt' = [opt EXCEPT !.update = saved_update]
    /\ UNCHANGED <<saved_update, fault, store, data, nbugs, bug, tasks, pass,
                   touched, ptouched, made_changes, log, diag>>

\* the same, once the invocations are no longer counted
Again ==
    /\ pc \in {"exit", "crashed", "failed"}
    /\ run = MaxRuns
    /\ pc' = "load"
    /\ opt' = [opt EXCEPT !.update = saved_update]
    /\ UNCHANGED <<saved_update, fault, store, data, nbugs, bug, tasks, pass,
                   touched, ptouched, made_changes, run, log, diag>>

Next ==
    \/ Load
    \/ Resolve
    \/ Refresh
    \/ SyncNew
    \/ Phase1
    \/ Phase2
    \/ Phase3
    \/ Return
    \/ Prompt
    \/ NextRun

(***************************************************************************)
(* Initial states: the inputs of the script, drawn from bounded sets       *)
(***************************************************************************)
Options(upd, confirm, missing_tasks, eol_tasks, missing_noms) ==
    [update |-> upd, confirm_update |-> confirm,
     allow_missing_tasks |-> missing_tasks, allow_eol_tasks |-> eol_tasks,
     allow_missing_nominations |-> missing_noms,
     bug_creation_cutoff |-> <<2011, 6, 1>>, search |-> FALSE]

AllAbsent == [s \in Packages |-> [k \in RecKeys |-> Absent]]

\* the dict of a record: only the entries that are present
MkDict(f) ==
    [s \in {p \in Packages : \E k \in RecKeys : f[p][k] # Absent} |->
        [k \in {q \in RecKeys : f[s][q] # Absent} |-> f[s][k]]]

NoPatches == [s \in Packages |-> <<>>]

Record(cand, f, bugs, prio, desc, udesc, pat, date) ==
    [Candidate |-> cand, pkgs |-> MkDict(f), Bugs |-> bugs, priority |-> prio,
     pkg_priority |-> [s \in {} |-> prio], Description |-> desc,
     UbuntuDescription |-> udesc, patches |-> pat, PublicDate |-> date]

Task(st) ==
    IF st = "none" THEN NoTask ELSE [status |-> st, importance |-> "Medium"]

\* a bug as Launchpad holds it: a release that has a task has an approved
\* nomination, the releases of prop have a proposed one
Bug(id, title, desc, tags, pkgs, tk, prop) ==
    [id |-> id, title |-> title, description |-> desc, tags |-> tags,
     pkgs |-> pkgs, tasks |-> tk,
     noms |-> [r \in Releases |->
                 IF \E s \in Packages : tk[s][r] # NoTask THEN "approved"
                 ELSE IF r \in prop THEN "proposed" ELSE "none"]]

NoBug(title) == Bug(0, title, <<>>, {}, {}, NoTasks, {})

Start(o, f, st, b, nb) ==
    /\ opt = o
    /\ saved_update = o.update
    /\ fault = f
    /\ store = st
    /\ data = st
    /\ nbugs = nb
    /\ bug = b
    /\ tasks = [s \in {} |-> {}]
    /\ pc = "load"
    /\ pass = 1
    /\ touched = FALSE
    /\ ptouched = FALSE
    /\ made_changes = FALSE
    /\ run = 1
    /\ log = {}
    /\ diag = {}

Cve == "CVE-2017-1000"
Linked == << <<"launchpad.net", 1>> >>
DescA == << <<"A">>, <<"B">> >>
OtherText == << <<"hand", "written">> >>
AfterCutoff == <<2012, 1, 1>>

\* every state and status of one (linux, release) pair, beside a second
\* pair; U: the values of --update, C: the values of --confirm-update
InitPairsIn(U, C) ==
    \E focus \in {"xenial", "devel"}, fs \in States \cup {Absent},
       ft \in Statuses \cup {"none"},
       other \in {<<Absent, "none">>, <<"needed", "Confirmed">>, <<"deferred", "New">>},
       prio \in {"medium", "negligible"}, upd \in U, confirm \in C,
       bdesc \in {Placeholder, OtherText},
       over \in {<<>>, <<"linux">>, <<"linux", "xenial">>} :
        LET okey == IF focus = "xenial" THEN "devel" ELSE "xenial"
            f == [AllAbsent EXCEPT !["linux"][focus] = fs,
                                   !["linux"][okey] = other[1]]
            tk == [NoTasks EXCEPT !["linux"][MapRelease(focus)] = Task(ft),
                                  !["linux"][MapRelease(okey)] = Task(other[2])]
            rec == Record(Cve, f, Linked, prio, DescA, <<>>, NoPatches, AfterCutoff)
        IN  Start(Options(upd, confirm, FALSE, FALSE, FALSE), "none",
                  IF over = <<>> THEN rec
                  ELSE [rec EXCEPT !.pkg_priority = [k \in {over} |-> "critical"]],
                  Bug(1, Cve, bdesc, {}, {"linux"}, tk, {}), 1)

InitPairs == InitPairsIn(BOOLEAN, {FALSE})

\* tasks of EOL releases, tasks of a package that is not a kernel package
InitEol ==
    \E eol \in {<<Absent, "none">>, <<Absent, "New">>, <<"needed", "Confirmed">>,
                 <<"deferred", "New">>, <<"DNE", "Fix Released">>},
       pair \in {<<"needed", "New">>, <<"released", "Confirmed">>},
       oss \in BOOLEAN, upd \in BOOLEAN, confirm \in BOOLEAN, eol_tasks \in BOOLEAN :
        LET f == [AllAbsent EXCEPT !["linux"]["lucid"] = eol[1],
                                   !["linux"]["xenial"] = pair[1],
                                   !["openssl"]["xenial"] =
                                       IF oss THEN "pending" ELSE Absent]
            tk == [NoTasks EXCEPT !["linux"]["lucid"] = Task(eol[2]),
                                  !["linux"]["xenial"] = Task(pair[2]),
                                  !["openssl"]["xenial"] =
                                      IF oss THEN Task("New") ELSE NoTask,
                                  !["openssl"]["lucid"] =
                                      IF oss THEN Task("New") ELSE NoTask]
        IN  Start(Options(upd, confirm, FALSE, eol_tasks, FALSE), "none",
                  Record(Cve, f, Linked, "low", DescA, <<>>, NoPatches, AfterCutoff),
                  Bug(1, Cve, Strip(DescA), {}, {"linux"}, tk, {}), 1)

WithAdd == << <<"hand">>, <<"Add-Break-Fix:", "sha0", "sha9">> >>
WithDel == << <<"Del-Break-Fix:", "sha9">>, <<"written">> >>
Upstream == << [field |-> "upstream", value |-> << <<"https:", "git", "sha1">> >>] >>
BreakFix ==
    << [field |-> "break-fix", value |-> << <<"sha0">>, <<"id", "sha2">> >>],
       [field |-> "break-fix", value |-> << <<"sha3">> >>],
       [field |-> "debdiff", value |-> << <<"sha4">> >>] >>

\* descriptions of the bug and of the record, the tag, the patch references
InitDescIn(BD, TG, PT) ==
    \E bdesc \in BD, tags \in TG,
       desc \in {<<>>, DescA, Placeholder}, udesc \in {<<>>, << <<"U">> >>},
       pat \in PT, prio \in {"medium", "high"},
       pair \in {<<"needed", "New">>, <<"released", "Confirmed">>,
                  <<"needs-triage", "Fix Committed">>},
       upd \in BOOLEAN, confirm \in BOOLEAN :
        LET f == [AllAbsent EXCEPT !["linux"]["xenial"] = pair[1],
                                   !["linux"]["devel"] = "needed"]
            tk == [NoTasks EXCEPT !["linux"]["xenial"] = Task(pair[2]),
                                  !["linux"]["artful"] = Task("Confirmed")]
        IN  Start(Options(upd, confirm, FALSE, FALSE, FALSE), "none",
                  Record(Cve, f, Linked, prio, desc, udesc,
                         [NoPatches EXCEPT !["linux"] = pat], AfterCutoff),
                  Bug(1, Cve, bdesc, tags, {"linux"}, tk, {}), 1)

InitDesc ==
    InitDescIn({Placeholder, OtherText, DescriptionNeeded, WithAdd, WithDel,
                << <<"A", "B">> >>},
               {{}, {UCT_DESC_IGNORE_TAG}}, {<<>>, Upstream, BreakFix})

Remote == <<"bugzilla.kernel.org", 7>>
\* the record names bug 2, the tracking bug Launchpad finds for it is bug 1
LinkedElsewhere == << <<"launchpad.net", 2>> >>

\* the Bugs field of the record, its date, the modes of the script; BD: the
\* descriptions of the bug
InitDriverIn(BD) ==
    \E bdesc \in BD,
       links \in {<<>>, <<Remote>>, Linked, Linked \o <<Remote>>,
                   Linked \o << <<"launchpad.net", 2>> >>, LinkedElsewhere},
       search \in BOOLEAN,
       date \in {<<2010, 12, 31>>, <<2011, 5, 31>>, <<2011, 6, 1>>, <<2012, 1, 1>>},
       pair \in {<<"needed", "New">>, <<"pending", "Triaged">>, <<"released", "Fix Released">>},
       f0 \in {"none", "create"},
       upd \in BOOLEAN, confirm \in BOOLEAN :
        LET f == [AllAbsent EXCEPT !["linux"]["xenial"] = pair[1],
                                   !["linux"]["devel"] = "needed"]
            tk == [NoTasks EXCEPT !["linux"]["xenial"] = Task(pair[2]),
                                  !["linux"]["artful"] = Task("Confirmed")]
            rec == Record(Cve, f, links, "medium", DescA, <<>>, NoPatches, date)
            o == [Options(upd, confirm, FALSE, FALSE, FALSE) EXCEPT !.search = search]
        IN  /\ (links = LinkedElsewhere) => search
            /\ IF LpBugs(rec) = <<>>
               THEN Start(o, f0, rec, NoBug(Cve), 0)
               ELSE Start(o, f0, rec, Bug(1, Cve, bdesc, {}, {"linux"}, tk, {}),
                          IF links = Linked \/ links = Linked \o <<Remote>> THEN 1 ELSE 2)

InitDriver == InitDriverIn({Strip(DescA)})

\* two kernel packages, with and without tasks; flags, failures, broken bugs
ProvModes ==
    {<<Options(upd, FALSE, mt, FALSE, mn), "none", Cve, {}>> :
        upd \in BOOLEAN, mt \in BOOLEAN, mn \in BOOLEAN}
    \cup {<<Options(TRUE, FALSE, FALSE, FALSE, FALSE), f0, Cve, {}>> :
             f0 \in {"addTask", "addNomination", "approve"}}
    \cup {<<Options(TRUE, FALSE, FALSE, FALSE, FALSE), "none", t, {}>> :
             t \in {"CVE-2010-3448", "CVE-2015-8709"}}
    \cup {<<Options(TRUE, FALSE, FALSE, FALSE, FALSE), "none", Cve, {r}>> :
             r \in {"xenial", "artful"}}

LiveMode == <<Options(TRUE, FALSE, FALSE, FALSE, FALSE), "none", Cve, {}>>

\* M: the modes, SX: the states of linux in xenial, Second: whether the
\* second kernel package is in the record and on the bug
InitProvIn(M, SX, Second) ==
    \E m \in M,
       p1 \in BOOLEAN, t1 \in {"none", "New"},
       sx \in SX,
       sd \in {Absent, "DNE", "needed"},
       sl \in {Absent, "needed"},
       p2 \in {FALSE} \cup Second, t2 \in IF TRUE \in Second THEN {"none", "New"} ELSE {"none"},
       sx2 \in IF TRUE \in Second THEN {Absent, "needed"} ELSE {Absent},
       sd2 \in IF TRUE \in Second THEN {Absent, "ignored", "deferred"} ELSE {Absent} :
        LET f == [AllAbsent EXCEPT !["linux"]["xenial"] = sx,
                                   !["linux"]["devel"] = sd,
                                   !["linux"]["lucid"] = sl,
                                   !["linux-lts"]["xenial"] = sx2,
                                   !["linux-lts"]["devel"] = sd2]
            tk == [NoTasks EXCEPT !["linux"]["xenial"] = Task(t1),
                                  !["linux-lts"]["artful"] = Task(t2)]
        IN  Start(m[1], m[2],
                  Record(m[3], f, Linked, "medium", DescA, <<>>, NoPatches, AfterCutoff),
                  Bug(1, m[3], Strip(DescA), {},
                      (IF p1 THEN {"linux"} ELSE {}) \cup (IF p2 THEN {"linux-lts"} ELSE {}),
                      tk, m[4]),
                  1)

InitProv == InitProvIn(ProvModes, {Absent, "DNE", "not-affected", "needed"}, {TRUE})

Init == InitPairs \/ InitEol \/ InitDesc \/ InitDriver

Spec == Init /\ [][Next]_vars

\* the provisioning inputs
InitP == InitProv \/ InitDriver

\* --update with --confirm-update: every pair, the provisioning inputs with
\* no failing call, the descriptions, the EOL tasks, the Bugs fields
ConfirmModes ==
    {<<Options(TRUE, TRUE, mt, FALSE, mn), "none", Cve, {}>> :
        mt \in BOOLEAN, mn \in BOOLEAN}
    \cup {<<Options(TRUE, TRUE, FALSE, FALSE, FALSE), "none", t, {}>> :
             t \in {"CVE-2010-3448", "CVE-2015-8709"}}
    \cup {<<Options(TRUE, TRUE, FALSE, FALSE, FALSE), "none", Cve, {r}>> :
             r \in {"xenial", "artful"}}

InitConfirm ==
    \/ InitPairsIn({TRUE}, {TRUE})
    \/ InitProvIn(ConfirmModes, {Absent, "DNE", "not-affected", "needed"}, {TRUE})
    \/ InitEol
    \/ InitDesc
    \/ InitDriverIn({<<Flatten(DescA)>>})

SpecConfirm == InitConfirm /\ [][Next]_vars

SpecP == InitP /\ [][Next]_vars

\* every input family together
InitAll == Init \/ InitProv

SpecAll == InitAll /\ [][Next]_vars

\* live runs of the script on one kernel package, repeated for ever
InitLive ==
    \/ InitProvIn({LiveMode}, {Absent, "DNE", "needed"}, {})
    \/ InitDescIn({Placeholder}, {{}}, {<<>>})

NextLive == Next \/ Again

SpecLive == InitLive /\ [][NextLive]_vars /\ WF_vars(NextLive)

(***************************************************************************)
(* Properties                                                              *)
(***************************************************************************)
InSync == pc \in {"sync", "new", "phase1", "phase2", "phase3"}

\* C1: dry-run purity.  While the update flag is off, no step of
\* sync_kernel_bug (Bugs field, provisioning, new-bug pass, phases 1-3)
\* issues a write to Launchpad or to the record store, and the bug, the
\* stored record and the loaded record stay as they were.
C1_DryRunPurity ==
    [][(InSync /\ ~opt.update)
          => (log' = log /\ bug' = bug /\ store' = store /\ data' = data)]_vars

\* a dry run has returned touched after reporting status, importance,
\* description and record changes it did not make
C1_Witness ==
    /\ pc = "ret"
    /\ ~opt.update
    /\ touched
    /\ log = {}
    /\ {"status", "importance", "uct_state", "description"}
           \subseteq {e[1] : e \in diag}

\* C2: idempotence.  When the script runs live for the second time on the
\* same record and bug, and the provisioning of that run has added nothing
\* to the bug, the new-bug pass and phases 1-3 of that run come to their
\* end and return touched = false.
C2_Idempotent ==
    (/\ run = 2 /\ saved_update /\ ~opt.confirm_update
     /\ pc \in {"ret", "crashed"}
     /\ \A e \in log : e[1] \notin {"addTask", "addNomination", "approve"})
        => (pc = "ret" /\ ~ptouched)

\* C3: a record never gets a second bug: the script creates a bug only for
\* a record for which it has created none before.
C3_NoSecondBug == (<<"createBug", "", "", "">> \in log) => nbugs = 1

\* C4: confirm-before-apply.  In confirm mode, when the record is done and
\* no confirmed second pass has run (the first pass returned touched = false,
\* or the answer was not yes), nothing was written to either store.
C4_ConfirmGate ==
    (opt.confirm_update /\ pc = "exit" /\ pass = 1) => log = {}

\* the record key of a release
DataRel(rel) == IF rel = devel_release THEN "devel" ELSE rel

HasState(d, src, key) == src \in DOMAIN d.pkgs /\ key \in DOMAIN d.pkgs[src]

AllNeededTasks ==
    \A src \in Srcs, rel \in Releases \ EolReleases :
        (HasState(store, src, DataRel(rel)) /\ store.pkgs[src][DataRel(rel)] # "DNE")
            => bug.tasks[src][rel] # NoTask

\* every package of the bug has a task for every release approved on the bug
TasksOfApproved ==
    \A rel \in Releases, s \in Packages :
        (bug.noms[rel] = "approved" /\ HasTask(bug, s)) => bug.tasks[s][rel] # NoTask

\* C5: invariant I1.  Under repeated live runs with no failing Launchpad
\* call, no broken-list bug and no suppressing flag, on a bug that starts
\* with all the tasks of its approved nominations, as long as the record
\* stays open, eventually every tracked package has a task for every
\* supported non-EOL release whose state in the record is not DNE.
C5_TasksEventually ==
    (/\ opt.update /\ ~opt.confirm_update
     /\ ~opt.allow_missing_tasks /\ ~opt.allow_missing_nominations
     /\ fault = "none" /\ bug.title \notin broken_approve_list
     /\ TasksOfApproved)
        => <>(AllNeededTasks \/ ~IsOpen(store))

Provisioning == {"addTask", "addNomination", "approve", "task", "nomination"}

\* C6: EOL exclusivity.  No nomination is wanted, added or approved for an
\* EOL release, no task is opened for one, in any mode.
C6_EolExclusive ==
    \A e \in log \cup diag :
        e[1] \in Provisioning => e[3] \notin EolReleases

\* the provisioning has approved a nomination while a package that has a
\* task, and no task for the EOL release, is needed there by the record
C6_Witness ==
    /\ pc \in {"new", "phase1"}
    /\ \E r \in Releases : <<"approve", "", r, "ok">> \in log
    /\ \E src \in Srcs, rel \in EolReleases :
          /\ HasState(data, src, rel)
          /\ data.pkgs[src][rel] = "needed"
          /\ src \in DOMAIN tasks
          /\ rel \notin tasks[src]

\* C7: no sync on EOL releases.  No step writes or wants the status or the
\* importance of a task of an EOL release, or the record state of an EOL
\* release; tasks are deleted only for EOL releases, and never with
\* allow-eol-tasks set.
C7_NoEolSync ==
    \A e \in log \cup diag :
        /\ e[1] \in {"status", "importance", "uct_state"} => e[3] \notin EolReleases
        /\ e[1] = "delete" => (e[3] \in EolReleases /\ ~opt.allow_eol_tasks)

\* a live sync has gone through all phases and written to the bug, and the
\* task of an EOL release, kept by allow-eol-tasks, is as it was
C7_Witness ==
    /\ pc = "ret"
    /\ opt.update
    /\ opt.allow_eol_tasks
    /\ log # {}
    /\ HasState(data, "linux", "lucid")
    /\ data.pkgs["linux"]["lucid"] = "needed"
    /\ bug.tasks["linux"]["lucid"] = [status |-> "Confirmed", importance |-> "Medium"]

InPhases == pc \in {"new", "phase1", "phase2", "phase3"}

\* what a step adds to the writes and to the diagnostics
Added == (log' \cup diag') \ (log \cup diag)

\* C8: deferred isolation.  A step of the new-bug pass or of phases 1-3
\* leaves a deferred (package, release) deferred, in memory and on disk,
\* and neither writes nor wants the status or importance of its task.
C8_DeferredIsolation ==
    [][InPhases =>
        \A src \in Packages, rel \in RecKeys \ {"upstream"} :
            (HasState(data, src, rel) /\ data.pkgs[src][rel] = "deferred") =>
                /\ data'.pkgs[src][rel] = "deferred"
                /\ store'.pkgs[src][rel] = store.pkgs[src][rel]
                /\ \/ bug'.tasks[src][MapRelease(rel)] = bug.tasks[src][MapRelease(rel)]
                   \/ /\ MapRelease(rel) \in EolReleases
                      /\ bug'.tasks[src][MapRelease(rel)] = NoTask
                /\ \A x \in Added :
                      /\ ~(x[1] \in {"status", "importance"}
                            /\ x[2] = src /\ x[3] = MapRelease(rel))
                      /\ ~(x[1] = "uct_state" /\ x[2] = src /\ x[3] = rel)]_vars

\* a live sync is through: a deferred entry whose task is New is as it was,
\* the task and the state of another release of the package were written
C8_Witness ==
    /\ pc = "ret"
    /\ opt.update
    /\ \E rel \in {"xenial", "devel"} :
          /\ HasState(data, "linux", rel)
          /\ data.pkgs["linux"][rel] = "deferred"
          /\ bug.tasks["linux"][MapRelease(rel)] = Task("New")
          /\ \E x \in log :
                x[1] = "importance" /\ x[2] = "linux" /\ x[3] # MapRelease(rel)
          /\ \E x \in log :
                /\ x[1] \in {"status", "uct_state"} /\ x[2] = "linux"
                /\ x[3] \notin {rel, MapRelease(rel)}

Advanced == {"Fix Released", "Won't Fix"}

Earlier == {"New", "Confirmed", "Triaged", "In Progress", "Fix Committed", "Invalid"}

IsDNE(d, src, release) ==
    \E rel \in RecKeys :
        MapRelease(rel) = release /\ HasState(d, src, rel) /\ d.pkgs[src][rel] = "DNE"

\* C9: no downgrade in phase 1.  Phase 1 neither sets nor wants an earlier
\* status for a task that is Fix Released or Won't Fix, except Invalid for
\* a (package, release) whose state in the record is DNE.
C9_NoDowngrade ==
    [][pc = "phase1" =>
        \A src \in Packages, release \in Releases :
            bug.tasks[src][release].status \in Advanced =>
                /\ bug'.tasks[src][release].status \in Earlier =>
                       (/\ IsDNE(data, src, release)
                        /\ bug'.tasks[src][release].status = "Invalid")
                /\ \A x \in Added :
                       (x[1] = "status" /\ x[2] = src /\ x[3] = release
                            /\ x[4] \in Earlier) =>
                           (IsDNE(data, src, release) /\ x[4] = "Invalid")]_vars

\* phase 1 has run live on a pending entry whose task is Won't Fix: it
\* wrote the importance and left the status
C9_Witness ==
    /\ pc = "phase2"
    /\ opt.update
    /\ \E rel \in {"xenial", "devel"} :
          /\ HasState(data, "linux", rel)
          /\ data.pkgs["linux"][rel] = "pending"
          /\ bug.tasks["linux"][MapRelease(rel)].status = "Won't Fix"
          /\ \E x \in log :
                x[1] = "importance" /\ x[2] = "linux" /\ x[3] = MapRelease(rel)

\* C10: invariant I2 in the provisioning.  Once the provisioning is through,
\* with no failing call and allow-missing-tasks off, a tracked package whose
\* record entry for 'devel' is not DNE has a task, or one is wanted.
C10_DevelNeedsTask ==
    (pc \in {"new", "phase1"} /\ ~opt.allow_missing_tasks /\ fault = "none") =>
        \A src \in Srcs :
            (HasState(data, src, "devel") /\ data.pkgs[src]["devel"] # "DNE") =>
                (src \in DOMAIN tasks \/ <<"task", src, "", "">> \in diag)

\* a pair the phases sync: a kernel package, a release that is not EOL, a
\* task in the task map
Synced(src, rel) ==
    /\ src \in Srcs
    /\ HasState(data, src, rel)
    /\ rel # "upstream"
    /\ MapRelease(rel) \notin EolReleases
    /\ src \in DOMAIN tasks
    /\ MapRelease(rel) \in tasks[src]

\* the transition table of phase 1, as specified
Phase1Table(state, status) ==
    IF state = "DNE" THEN "Invalid"
    ELSE IF state = "pending"
            /\ status \in {"Invalid", "New", "Confirmed", "Triaged", "In Progress"}
    THEN "Fix Committed"
    ELSE IF state = "released" THEN "Fix Released"
    ELSE IF state \in {"not-affected", "ignored"} /\ status = "New" THEN "Invalid"
    ELSE status

\* C11: phase-1 transition table.  After a live phase 1 the status of the
\* task of every synced pair is the one the table gives for the state of
\* the record and the status before.
C11_Phase1Table ==
    [][(pc = "phase1" /\ opt.update) =>
        \A src \in Packages, rel \in RecKeys :
            Synced(src, rel) =>
                bug'.tasks[src][MapRelease(rel)].status =
                    Phase1Table(data.pkgs[src][rel],
                                bug.tasks[src][MapRelease(rel)].status)]_vars

\* scenario A: a live phase 1 has set Fix Committed for a pending entry
C11_Witness ==
    /\ pc = "phase2"
    /\ opt.update
    /\ \E rel \in {"xenial", "devel"} :
          /\ Synced("linux", rel)
          /\ data.pkgs["linux"][rel] = "pending"
          /\ bug.tasks["linux"][MapRelease(rel)].status = "Fix Committed"
          /\ <<"status", "linux", MapRelease(rel), "Fix Committed">> \in log

\* the pull rules of phase 2, as specified
Phase2Table(status, state) ==
    IF status \in {"Confirmed", "Triaged", "In Progress"} THEN "needed"
    ELSE IF status = "New" /\ state # "needed" THEN "needs-triage"
    ELSE IF status = "Invalid" /\ state \notin {"DNE", "ignored"} THEN "not-affected"
    ELSE state

\* C12: phase-2 pull rules.  After a live phase 2 the state of every synced
\* pair that is not deferred is, in memory and on disk, the one the rules
\* give for the status of its task; no task of the bug has changed.
C12_Phase2Pull ==
    [][(pc = "phase2" /\ opt.update) =>
        /\ bug' = bug
        /\ \A src \in Packages, rel \in RecKeys :
              (Synced(src, rel) /\ data.pkgs[src][rel] # "deferred") =>
                  /\ data'.pkgs[src][rel] =
                         Phase2Table(bug.tasks[src][MapRelease(rel)].status,
                                     data.pkgs[src][rel])
                  /\ store'.pkgs[src][rel] = data'.pkgs[src][rel]]_vars

\* scenario C: a live phase 2 has pulled needed from a Triaged task
C12_Witness ==
    /\ pc = "phase3"
    /\ opt.update
    /\ \E rel \in {"xenial", "devel"} :
          /\ Synced("linux", rel)
          /\ bug.tasks["linux"][MapRelease(rel)].status = "Triaged"
          /\ data.pkgs["linux"][rel] = "needed"
          /\ store.pkgs["linux"][rel] = "needed"
          /\ <<"uct_state", "linux", rel, "needed">> \in log

\* what a gate returns for the world w it is given now: nothing when the
\* value is there, else touched, and the write b, d, st when live
GateResult(w, differs, b, d, st) ==
    IF ~differs
    THEN w = World
    ELSE /\ w.touched
         /\ IF opt.update
            THEN w.bug = b /\ w.data = d /\ w.store = st
            ELSE w.bug = bug /\ w.data = data /\ w.store = store /\ w.log = log

Importances == {priority_to_importance[p] : p \in DOMAIN priority_to_importance}

StatusGate ==
    \A src \in Packages, release \in Releases, s \in Statuses :
        bug.tasks[src][release] # NoTask =>
            /\ GateResult(set_task_status(World, src, release, s),
                          bug.tasks[src][release].status # s,
                          [bug EXCEPT !.tasks[src][release].status = s], data, store)
            /\ (src \in DOMAIN tasks /\ release \in tasks[src]) =>
                   GateResult(set_task_status_iff_exists(World, src, release, s),
                              bug.tasks[src][release].status # s,
                              [bug EXCEPT !.tasks[src][release].status = s], data, store)

ImportanceGate ==
    \A src \in Packages, release \in Releases, i \in Importances :
        bug.tasks[src][release] # NoTask =>
            GateResult(set_task_importance(World, src, release, i),
                       bug.tasks[src][release].importance # i,
                       [bug EXCEPT !.tasks[src][release].importance = i], data, store)

StateGate ==
    \A src \in DOMAIN data.pkgs :
        \A rel \in DOMAIN data.pkgs[src] \cap DOMAIN store.pkgs[src], s \in States :
            GateResult(set_uct_state(World, src, rel, s),
                       data.pkgs[src][rel] # s,
                       bug, [data EXCEPT !.pkgs[src][rel] = s],
                       [store EXCEPT !.pkgs[src][rel] = s])

DeleteGate ==
    \A src \in Packages, release \in Releases :
        bug.tasks[src][release] # NoTask =>
            GateResult(delete_task(World, src, release, "EoL"), TRUE,
                       [bug EXCEPT !.tasks[src][release] = NoTask], data, store)

\* the texts the description gate is asked to set
Texts ==
    {Placeholder, DescriptionNeeded, DescA, OtherText, bug.description,
     <<BlankLine>> \o DescA \o <<BlankLine>>}

\* the two cases in which set_bug_description declines
Declined(text) ==
    \/ UCT_DESC_IGNORE_TAG \in bug.tags
    \/ bug.description # Placeholder /\ Strip(text) = DescriptionNeeded

\* C13, as stated: each of set status, set importance, set description and
\* set local state returns touched = false and writes nothing when the value
\* asked for is the current one, and else returns touched = true and writes
\* if and only if live; delete task writes only when live.
C13_Gates ==
    /\ StatusGate
    /\ ImportanceGate
    /\ StateGate
    /\ DeleteGate
    /\ \A text \in Texts :
          GateResult(set_bug_description(World, text),
                     bug.description # Strip(text),
                     [bug EXCEPT !.description = Strip(text)], data, store)

\* C13, amended: the same, but set description also returns touched = false
\* and writes nothing when the bug carries the description-ignore tag, or
\* when the text is 'Description needed' and the bug description is not
\* 'Placeholder'.
C13_GatesAmended ==
    /\ StatusGate
    /\ ImportanceGate
    /\ StateGate
    /\ DeleteGate
    /\ \A text \in Texts :
          GateResult(set_bug_description(World, text),
                     bug.description # Strip(text) /\ ~Declined(text),
                     [bug EXCEPT !.description = Strip(text)], data, store)

\* a live sync in which the gates have written an importance, a description
\* and a state of the record, and have left a status that was there already
C13_Witness ==
    /\ pc = "ret"
    /\ opt.update
    /\ touched
    /\ {"importance", "uct_state", "description"} \subseteq {e[1] : e \in log}
    /\ \E rel \in {"xenial", "devel"} :
          /\ Synced("linux", rel)
          /\ store.pkgs["linux"][rel] = "needed"
          /\ bug.tasks["linux"][MapRelease(rel)].status = "In Progress"
          /\ \A e \in log : e[1] # "status"


(***************************************************************************)
(* The description-ignore tag                                              *)
(***************************************************************************)
Tagged == UCT_DESC_IGNORE_TAG \in bug.tags

NoDescription(es) == {e \in es : e[1] # "description"}

\* what a run leaves behind apart from the description
Rest(w) ==
    [tasks |-> w.bug.tasks, data |-> w.data, store |-> w.store,
     log |-> NoDescription(w.log), diag |-> NoDescription(w.diag),
     raised |-> w.raised]

Untagged(w) == [w EXCEPT !.bug.tags = @ \ {UCT_DESC_IGNORE_TAG}]

\* C14: while the bug carries the description-ignore tag no step writes the
\* bug description or reports a description change, the description writer
\* returns touched = false for the text generated from the record, and the
\* passes of a sync leave the tasks, the record and the record store exactly
\* as they leave them for the same bug without the tag
C14_DescriptionIgnored ==
    [][Tagged =>
        /\ bug'.description = bug.description
        /\ \A e \in Added : e[1] # "description"
        /\ _update_description_from_uct(World) = World
        /\ (pc \in {"new", "phase1"}) =>
               Rest(sync_phases(World)) = Rest(sync_phases(Untagged(World)))]_vars

C14_Witness ==
    /\ pc = "ret" /\ opt.update /\ Tagged
    /\ bug.description = OtherText
    /\ Flatten(data.Description) # <<>>
    /\ \E e \in log : e[1] = "importance"
    /\ \E e \in log : e[1] = "status"
    /\ \A e \in log \cup diag : e[1] # "description"


(***************************************************************************)
(* The fallback text                                                       *)
(***************************************************************************)
NoRecordDescription ==
    Flatten(data.Description) = <<>> /\ Flatten(data.UbuntuDescription) = <<>>

\* C15: when both description fields of the record are empty and the bug
\* description is not 'Placeholder', no pass of a sync changes the bug
\* description, whatever patch references the record holds
C15_PlaceholderKept ==
    [][(InPhases /\ NoRecordDescription /\ bug.description # Placeholder)
          => bug'.description = bug.description]_vars


(***************************************************************************)
(* Errors while a record is handled                                        *)
(***************************************************************************)
\* C16: an error raised while a record is handled (a failed bug creation, an
\* exception inside a phase) ends the handling of that record only: the
\* script is never ended by it, so the loop goes on to the records that follow
C16_FaultIsolation == pc \notin {"failed", "crashed"}


(***************************************************************************)
(* Records whose bug cannot be told                                        *)
(***************************************************************************)
\* the record names no Launchpad bug, none is known for it, and none may be
\* filed: the run is dry or the record is older than the cutoff
Unlinked ==
    /\ LpBugs(data) = <<>> /\ ~InBuglist
    /\ (~opt.update \/ BeforeCutoff(data.PublicDate, opt.bug_creation_cutoff))

Ambiguous == Unlinked \/ Len(LpBugs(data)) > 1 \/ Mismatch(LpBugs(data))

C18_PhaseOrder ==
    [][/\ (pc = "sync") =>
             pc' = IF bug'.description = Placeholder THEN "new" ELSE "phase1"
       /\ (pc = "new") =>
             pc' = "phase1" /\ touched' = (touched \/ sync_new_bug(World).touched)
       /\ (pc = "phase1") =>
             pc' = "phase2" /\ touched' = (touched \/ sync_to_bug_phase1(World).touched)
       /\ (pc = "phase2") =>
             pc' = "phase3" /\ touched' = (touched \/ sync_from_bug_phase2(World).touched)
       /\ (pc = "phase3") =>
             pc' = "ret" /\ touched' = (touched \/ sync_to_bug_phase3(World).touched)]_vars


(***************************************************************************)
(* The pass over a new bug                                                 *)
(***************************************************************************)
NewBugTable(state, status) ==
    IF status # "New" THEN status
    ELSE IF state \in {"DNE", "not-affected"} THEN "Invalid"
    ELSE IF state = "pending" THEN "Fix Committed"
    ELSE IF state = "released" THEN "Fix Released"
    ELSE status

\* C19: the pass over a new bug is entered only with the description
\* 'Placeholder'; it gives the tasks at New the status of the reduced table
\* and leaves every other status, every importance, the record and the
\* record store as they are; it then writes the description generated from
\* the record, so that after a live pass over an untagged bug the
\* description is no longer 'Placeholder'
C19_Bootstrap ==
    [][/\ (pc' = "new") => bug'.description = Placeholder
       /\ (pc = "new") =>
             /\ data' = data /\ store' = store
             /\ \A e \in Added : e[1] \in {"status", "description"}
             /\ \A src \in Packages, r \in Releases :
                    /\ bug'.tasks[src][r].importance = bug.tasks[src][r].importance
                    /\ bug'.tasks[src][r].status # bug.tasks[src][r].status
                          => /\ opt.update
                             /\ bug.tasks[src][r].status = "New"
                             /\ Synced(src, DataRel(r))
             /\ opt.update =>
                    \A src \in Packages, rel \in RecKeys :
                        Synced(src, rel) =>
                            bug'.tasks[src][MapRelease(rel)].status =
                                NewBugTable(data.pkgs[src][rel],
                                            bug.tasks[src][MapRelease(rel)].status)
             /\ (opt.update /\ ~Tagged) =>
                    /\ bug'.description = Strip(GeneratedDescription(World))
                    /\ bug'.description # Placeholder]_vars


(***************************************************************************)
(* Importance                                                              *)
(***************************************************************************)
ImportanceTable(priority) ==
    CASE priority = "critical" -> "Critical"
      [] priority = "high" -> "High"
      [] priority = "medium" -> "Medium"
      [] priority = "low" -> "Low"
      [] priority = "negligible" -> "Wishlist"

\* C20: a live phase 1 leaves every synced pair that has a task and a state
\* other than deferred with the importance the table gives for the pair's
\* contextual priority, whether or not phase 1 changed the pair's status
C20_ImportanceSynced ==
    [][(pc = "phase1" /\ opt.update) =>
          \A src \in Packages, rel \in RecKeys :
              (Synced(src, rel) /\ data.pkgs[src][rel] # "deferred") =>
                  bug'.tasks[src][MapRelease(rel)].importance =
                      ImportanceTable(contextual_priority(data, src, rel))]_vars

\* a pair whose status and importance phase 1 wrote, the importance from a
\* priority given for the release, next to a pair with the record's priority
C20_Witness ==
    /\ pc = "phase2" /\ opt.update
    /\ <<"linux", "xenial">> \in DOMAIN data.pkg_priority
    /\ <<"status", "linux", "xenial", "Fix Committed">> \in log
    /\ <<"importance", "linux", "xenial", "Critical">> \in log
    /\ bug.tasks["linux"]["xenial"].importance = "Critical"
    /\ <<"importance", "linux", "artful", "Wishlist">> \in log
    /\ bug.tasks["linux"]["artful"].importance = "Wishlist"


(***************************************************************************)
(* Statuses over a whole sync                                              *)
(***************************************************************************)
Settled == {"Fix Committed", "Fix Released", "Won't Fix"}

Unsettled == {"New", "Confirmed", "Triaged", "In Progress"}

\* C21: a live sync never takes a task that is Fix Committed, Fix Released
\* or Won't Fix when the passes begin to New, Confirmed, Triaged or In
\* Progress when they end, whatever the state of the record
C21_NoRunDowngrade ==
    (pc \in {"new", "phase1"} /\ opt.update) =>
        \A src \in Packages, release \in Releases :
            bug.tasks[src][release].status \in Settled =>
                sync_phases(World).bug.tasks[src][release].status \notin Unsettled


(***************************************************************************)
(* States that are only pushed                                             *)
(***************************************************************************)
PushOnly == {"pending", "released", "DNE"}

\* C22: a live sync leaves an entry of the record that is pending, released
\* or DNE when the passes begin as it is, in the record and in the record
\* store, whatever status its task has
C22_PushOnly ==
    (pc \in {"new", "phase1"} /\ opt.update) =>
        \A src \in Packages, rel \in RecKeys :
            (HasState(data, src, rel) /\ data.pkgs[src][rel] \in PushOnly) =>
                \E w \in {sync_phases(World)} :
                    /\ w.data.pkgs[src][rel] = data.pkgs[src][rel]
                    /\ w.store.pkgs[src][rel] = store.pkgs[src][rel]

\* a live sync is through: it set the task of a DNE entry to Invalid and
\* wrote no state to the record
C22_Witness ==
    /\ pc = "ret" /\ opt.update /\ run = 1
    /\ \E rel \in {"xenial", "devel"} :
          /\ HasState(data, "linux", rel) /\ data.pkgs["linux"][rel] = "DNE"
          /\ <<"status", "linux", MapRelease(rel), "Invalid">> \in log
    /\ \A e \in log : e[1] # "uct_state"


(***************************************************************************)
(* Directives in the bug description                                       *)
(***************************************************************************)
HasDirective == \E i \in DOMAIN bug.description : IsDirective(bug.description[i])

\* C23: when the bug description holds an 'Add-Break-Fix:' or
\* 'Del-Break-Fix:' line, phase 2 handles it without an error and the sync
\* goes on with phase 3
C23_DirectivesApplied ==
    [][(pc = "phase2" /\ HasDirective) =>
          /\ sync_from_bug_phase2(World).raised = "none"
          /\ pc' = "phase3"]_vars


(***************************************************************************)
(* Nominations belong to the bug                                           *)
(***************************************************************************)
\* some tracked package on the bug has a task for the release
Nominated(rel) ==
    \E src \in Srcs :
        src \in DOMAIN generate_task_map(bug) /\ rel \in generate_task_map(bug)[src]

\* C24: when a tracked package on the bug has a task for a release, the
\* provisioning neither asks for nor approves a nomination for that release,
\* and wants none in a dry run, whichever package it looks at first
C24_BugWideNominations ==
    [][pc = "sync" =>
          \A rel \in Releases :
              Nominated(rel) =>
                  \A e \in Added :
                      e[1] \in {"addNomination", "approve", "nomination"} => e[3] # rel]_vars


(***************************************************************************)
(* What the provisioning returns                                           *)
(***************************************************************************)
\* C25: in live mode the provisioning returns true exactly when it has
\* created or approved a task or a nomination on the bug; a call that
\* failed and a nomination passed over for a bug of the broken lists do not
\* count
C25_ProvisionerResult ==
    [][(pc = "sync" /\ opt.update) =>
          (touched' <=> (bug'.pkgs # bug.pkgs \/ bug'.noms # bug.noms
                            \/ bug'.tasks # bug.tasks))]_vars


(***************************************************************************)
(* Calls of the provisioning that fail                                     *)
(***************************************************************************)
ProvisioningFault == fault \in {"addTask", "addNomination", "approve"}

\* no call that failed is made again later in the same provisioning
NoRetry(calls) ==
    \A i \in DOMAIN calls, j \in DOMAIN calls :
        (i < j /\ calls[i][3] = "failed") =>
            <<calls[j][1], calls[j][2]>> # <<calls[i][1], calls[i][2]>>

KnownBroken == broken_nomination_list \cup broken_approve_list

\* C27: for a bug of the broken lists the provisioning makes no
\* addNomination and no approve call, for any release
C27_BrokenListNoCalls ==
    [][(pc = "sync" /\ bug.title \in KnownBroken) =>
          \A e \in Added : e[1] \notin {"addNomination", "approve"}]_vars


\* C27, with the two lists told apart: for a bug of the broken nomination
\* list the provisioning makes no addNomination and no approve call; for a
\* bug of the broken approve list it makes no approve call
C27_BrokenListsAmended ==
    [][pc = "sync" =>
          /\ bug.title \in broken_nomination_list =>
                 \A e \in Added : e[1] \notin {"addNomination", "approve"}
          /\ bug.title \in broken_approve_list =>
                 \A e \in Added : e[1] # "approve"]_vars

\* the live provisioning is through for a bug of the broken approve list:
\* a nomination was added and is still only proposed
C27_Witness ==
    /\ pc \in {"new", "phase1"} /\ opt.update /\ touched
    /\ bug.title \in broken_approve_list
    /\ \E rel \in Releases :
          /\ <<"addNomination", "", rel, "ok">> \in log
          /\ bug.noms[rel] = "proposed"


(***************************************************************************)
(* Which packages get a task                                               *)
(***************************************************************************)
\* the record gives the package a state other than DNE in some release
NeedsTask(src) ==
    \E rel \in Releases :
        HasState(data, src, DataRel(rel)) /\ data.pkgs[src][DataRel(rel)] # "DNE"

TaskAsked(src) ==
    \E e \in Added : e[1] \in {"addTask", "task"} /\ e[2] = src

\* C28: the provisioning asks for a task of a tracked package (wants it, in
\* a dry run) exactly when the package has no task on the bug, the record
\* gives it a state other than DNE in some release, and allow-missing-tasks
\* is off
C28_TaskCreationRule ==
    [][pc = "sync" =>
          \A src \in Srcs :
              TaskAsked(src) <=>
                  /\ src \notin DOMAIN generate_task_map(bug)
                  /\ NeedsTask(src)
                  /\ ~opt.allow_missing_tasks]_vars


(***************************************************************************)
(* Which releases get a nomination                                         *)
(***************************************************************************)
\* the package has a task on the bug, none for the release, and the record
\* gives it a state other than DNE and not-affected there
WantsRelease(src, rel) ==
    /\ src \in DOMAIN generate_task_map(bug)
    /\ rel \notin generate_task_map(bug)[src]
    /\ HasState(data, src, DataRel(rel))
    /\ data.pkgs[src][DataRel(rel)] \notin {"DNE", "not-affected"}

NominationAsked(rel) ==
    \E e \in Added : e[1] \in {"addNomination", "approve", "nomination"} /\ e[3] = rel

\* C29: with no call failing, for a release that is not EOL the provisioning
\* asks for a nomination only if some tracked package with a task lacks the
\* release while the record gives it a state other than DNE and
\* not-affected there; and it does ask for it then, whatever that state is,
\* when no package has a task for the release yet, allow-missing-nominations
\* is off and the bug is on no broken list
C29_NominationSkipRule ==
    [][(pc = "sync" /\ fault = "none") =>
          \A rel \in Releases \ EolReleases :
              /\ NominationAsked(rel) => \E src \in Srcs : WantsRelease(src, rel)
              /\ ( /\ \E src \in Srcs : WantsRelease(src, rel)
                    /\ ~Nominated(rel)
                    /\ ~opt.allow_missing_nominations
                    /\ bug.title \notin KnownBroken ) => NominationAsked(rel)]_vars

\* the provisioning is through, with no flag set: a nomination was asked
\* for a release the record marks ignored, and none for a release the
\* record marks not-affected for a package that has a task
C29_Witness ==
    /\ pc \in {"new", "phase1"} /\ fault = "none"
    /\ ~opt.allow_missing_nominations /\ ~opt.allow_missing_tasks
    /\ \E e \in log \cup diag :
          /\ e[1] \in {"addNomination", "nomination"}
          /\ e[3] = devel_release
          /\ data.pkgs["linux-lts"]["devel"] = "ignored"
    /\ HasState(data, "linux", "xenial") /\ data.pkgs["linux"]["xenial"] = "not-affected"
    /\ "linux" \in DOMAIN tasks /\ bug.tasks["linux"]["xenial"] = NoTask
    /\ \A e \in log \cup diag :
          e[1] \in Provisioning => (e[3] # "xenial" /\ e[2] # "linux")


(***************************************************************************)
(* generate_task_map on the task list of a bug                             *)
(*                                                                         *)
(* Here bug.bug_tasks is the list Launchpad returns, each task given by    *)
(* what uctlp.extract_task returns for it: package, project and release,   *)
(* with None for a part the task does not have.  The task map holds, for   *)
(* a package and a release, the position of the task in that list.         *)
(***************************************************************************)
None == "None"

\* str.lower() on the names that occur
Lower(name) ==
    CASE name = "Linux" -> "linux"
      [] name = "Ubuntu" -> "ubuntu"
      [] name = "Xenial" -> "xenial"
      [] OTHER -> name

\* dict.setdefault(key, value)
SetDefault(d, key, value) == IF key \in DOMAIN d THEN d ELSE d @@ (key :> value)

MapStep_package_as_given(r, bug_tasks, i) ==
    LET task == bug_tasks[i] IN
    IF task.project = None
    THEN r
    ELSE IF Lower(task.project) # "ubuntu"
    THEN [r EXCEPT !.warnings = @ \cup {i}]
    ELSE LET package == task.package
             t1 == SetDefault(r.tasks, package, <<>>)
         IN  IF task.release = None
             THEN [r EXCEPT !.tasks = t1]
             ELSE [r EXCEPT !.tasks =
                      [t1 EXCEPT ![package] = SetDefault(@, Lower(task.release), i)]]

\* lines 568-586: the body of the loop for the task at position i;
\* r is [tasks, warnings]
MapStep(r, bug_tasks, i) ==
    LET task == bug_tasks[i] IN
    IF task.project = None
    THEN r
    ELSE IF Lower(task.project) # "ubuntu"
    THEN [r EXCEPT !.warnings = @ \cup {i}]
    ELSE LET package == Lower(task.package)
             t1 == SetDefault(r.tasks, package, <<>>)
         IN  IF task.release = None
             THEN [r EXCEPT !.tasks = t1]
             ELSE [r EXCEPT !.tasks =
                      [t1 EXCEPT ![package] = SetDefault(@, Lower(task.release), i)]]

RECURSIVE MapFirst(_, _)
MapFirst(bug_tasks, n) ==
    IF n = 0 THEN [tasks |-> <<>>, warnings |-> {}]
    ELSE MapStep(MapFirst(bug_tasks, n - 1), bug_tasks, n)

\* generate_task_map(bug) for a bug given by its task list
generate_task_map_of_list(bug_tasks) == MapFirst(bug_tasks, Len(bug_tasks))

RawTask(package, project, release) ==
    [package |-> package, project |-> project, release |-> release]

RawTasks ==
    {RawTask("linux", "ubuntu", None), RawTask("linux", "ubuntu", "xenial"),
     RawTask("Linux", "Ubuntu", "Xenial"), RawTask("linux-lts", "Ubuntu", "artful"),
     RawTask("linux-lts", "ubuntu", None),
     RawTask("linux", "debian", "xenial"), RawTask("linux", None, None)}

MaxTasks == 3

TaskLists == UNION {[1..n -> RawTasks] : n \in 0..MaxTasks}

InitMap ==
    /\ bug \in {[id |-> 1, bug_tasks |-> l] : l \in TaskLists}
    /\ tasks = <<>>
    /\ pc = "map"
    /\ opt = Options(FALSE, FALSE, FALSE, FALSE, FALSE)
    /\ saved_update = FALSE
    /\ fault = "none"
    /\ store = <<>>
    /\ data = <<>>
    /\ nbugs = 1
    /\ pass = 1
    /\ touched = FALSE
    /\ ptouched = FALSE
    /\ made_changes = FALSE
    /\ run = 1
    /\ log = {}
    /\ diag = {}

\* line 723: tasks = generate_task_map(bug)
BuildTaskMap ==
    /\ pc = "map"
    /\ \E r \in {generate_task_map_of_list(bug.bug_tasks)} :
          /\ tasks' = r.tasks
          /\ diag' = {<<"WARNING", "task not in ubuntu project", "", "">> :
                         i \in r.warnings}
    /\ pc' = "mapped"
    /\ UNCHANGED <<opt, saved_update, fault, store, data, nbugs, bug, pass,
                   touched, ptouched, made_changes, run, log>>

NextMap == BuildTaskMap

SpecMap == InitMap /\ [][NextMap]_vars

\* the tasks of the bug that are in the ubuntu project
Canonical(l) == {i \in DOMAIN l : l[i].project # None /\ Lower(l[i].project) = "ubuntu"}

\* C30: the task map holds exactly the ubuntu tasks of the bug, under the
\* lower-cased package and the lower-cased release; a package whose only
\* ubuntu task has no release is in the map with no release; a task of
\* another project gives a warning and nothing else; the bug is not
\* written
C30_TaskMap ==
    [][pc = "map" =>
        LET l == bug.bug_tasks IN
        /\ bug' = bug /\ log' = log
        /\ DOMAIN tasks' = {Lower(l[i].package) : i \in Canonical(l)}
        /\ \A package \in DOMAIN tasks' :
               /\ DOMAIN tasks'[package] =
                      {Lower(l[i].release) :
                          i \in {j \in Canonical(l) : /\ Lower(l[j].package) = package
                                                       /\ l[j].release # None}}
               /\ \A release \in DOMAIN tasks'[package] :
                      LET i == tasks'[package][release] IN
                      /\ i \in Canonical(l)
                      /\ Lower(l[i].package) = package
                      /\ Lower(l[i].release) = release
        /\ (diag' # {}) <=> (\E i \in DOMAIN l :
                                l[i].project # None /\ i \notin Canonical(l))
        /\ pc' = "mapped"]_vars

\* the map of a bug with a capitalised release task, a task of another
\* project and a package that has only a release-less task
C30_Witness ==
    /\ pc = "mapped"
    /\ \E i, j, k \in DOMAIN bug.bug_tasks :
          /\ bug.bug_tasks[i] = RawTask("Linux", "Ubuntu", "Xenial")
          /\ bug.bug_tasks[j] = RawTask("linux", "debian", "xenial")
          /\ bug.bug_tasks[k] = RawTask("linux-lts", "ubuntu", None)
    /\ DOMAIN tasks = {"linux", "linux-lts"}
    /\ DOMAIN tasks["linux"] = {"xenial"}
    /\ DOMAIN tasks["linux-lts"] = {}
    /\ diag # {}


(***************************************************************************)
(* Phase 3                                                                 *)
(***************************************************************************)
\* what phase 3 does to the statuses: New for every synced needs-triage
\* pair (wanted, in a dry run), the status of every other synced pair kept
Phase3Statuses ==
    \A src \in Packages, rel \in RecKeys :
        Synced(src, rel) =>
            LET release == MapRelease(rel)
                status == bug.tasks[src][release].status
            IN  IF data.pkgs[src][rel] = "needs-triage"
                THEN /\ opt.update => bug'.tasks[src][release].status = "New"
                     /\ (~opt.update /\ status # "New") =>
                            <<"status", src, release, "New">> \in diag'
                ELSE /\ bug'.tasks[src][release].status = status
                     /\ \A x \in Added :
                            ~(x[1] = "status" /\ x[2] = src /\ x[3] = release)

\* the description is the one generated from the record (wanted, in a dry run)
Regenerated ==
    LET text == Strip(GeneratedDescription(World)) IN
    /\ opt.update => bug'.description = text
    /\ (~opt.update /\ bug.description # text) =>
           <<"description", "", "", "">> \in diag'

\* the text generated from the record: the record's description, else the
\* fallback description, else 'Description needed', a blank line, and one
\* Break-Fix line for each annotation of a kernel package that has a task
GeneratedAsSpecified ==
    LET d1 == Flatten(data.Description)
        d2 == Flatten(data.UbuntuDescription)
        shas == SrcShas(World, SetToSeq(DOMAIN data.pkgs))
        text == GeneratedDescription(World)
    IN  /\ text[1] = (IF d1 # <<>> THEN d1
                      ELSE IF d2 # <<>> THEN d2 ELSE <<"Description", "needed">>)
        /\ text[2] = BlankLine
        /\ Len(text) = 2 + Len(shas)
        /\ \A i \in 1..Len(shas) : text[2 + i] = <<"Break-Fix:">> \o shas[i]

\* C31, as stated: phase 3 sets the status New for every synced pair whose
\* state is needs-triage and changes the status of no other pair; it then
\* sets the description to the record's description, or the fallback
\* description, or 'Description needed', followed by one Break-Fix line for
\* each known annotation.
C31_Phase3 ==
    [][pc = "phase3" => (Phase3Statuses /\ GeneratedAsSpecified /\ Regenerated)]_vars

\* C31, with the cases in which the description is left: the same, but the
\* description is neither written nor wanted when the bug carries the
\* description-ignore tag, or when the generated text is just 'Description
\* needed' and the bug description is not 'Placeholder'.
C31_Phase3Amended ==
    [][pc = "phase3" =>
        /\ Phase3Statuses
        /\ GeneratedAsSpecified
        /\ IF Declined(GeneratedDescription(World))
           THEN /\ bug'.description = bug.description
                /\ \A x \in Added : x[1] # "description"
           ELSE Regenerated]_vars

\* a live phase 3 has set New for a needs-triage pair whose task was Fix
\* Committed, has left the task of a needed pair, and has written a
\* description that ends in Break-Fix lines
C31_Witness ==
    /\ pc = "ret" /\ opt.update
    /\ Synced("linux", "xenial") /\ Synced("linux", "devel")
    /\ data.pkgs["linux"]["xenial"] = "needs-triage"
    /\ <<"status", "linux", "xenial", "New">> \in log
    /\ bug.tasks["linux"]["xenial"].status = "New"
    /\ data.pkgs["linux"]["devel"] = "needed"
    /\ bug.tasks["linux"]["artful"].status = "Confirmed"
    /\ <<"description", "", "", "">> \in log
    /\ Len(bug.description) > 2
    /\ bug.description[Len(bug.description)][1] = "Break-Fix:"


(***************************************************************************)
(* Invalid tasks of ignored and DNE entries                                *)
(***************************************************************************)
\* a synced pair whose task is Invalid and whose state is ignored or DNE
InvalidOnClosed(src, rel) ==
    /\ Synced(src, rel)
    /\ bug.tasks[src][MapRelease(rel)].status = "Invalid"
    /\ data.pkgs[src][rel] \in {"ignored", "DNE"}

\* C32, as stated: when the status of the task is Invalid and the state of
\* the record is ignored or DNE, a live phase 2 sets the state to
\* not-affected.
C32_InvalidPulled ==
    [][(pc = "phase2" /\ opt.update) =>
        \A src \in Packages, rel \in RecKeys :
            InvalidOnClosed(src, rel) => data'.pkgs[src][rel] = "not-affected"]_vars

\* C32, with the rule of the code: when the status of the task is Invalid
\* and the state of the record is ignored or DNE, phase 2 leaves the state
\* as it is, in the record and in the record store, and reports no change
\* of it; Invalid is pulled as not-affected only over the other states.
C32_InvalidKept ==
    [][pc = "phase2" =>
        \A src \in Packages, rel \in RecKeys :
            /\ InvalidOnClosed(src, rel) =>
                   /\ data'.pkgs[src][rel] = data.pkgs[src][rel]
                   /\ store'.pkgs[src][rel] = store.pkgs[src][rel]
                   /\ \A x \in Added :
                          ~(x[1] = "uct_state" /\ x[2] = src /\ x[3] = rel)
            /\ (/\ Synced(src, rel) /\ opt.update
                /\ bug.tasks[src][MapRelease(rel)].status = "Invalid"
                /\ data.pkgs[src][rel] \notin {"ignored", "DNE", "deferred"}) =>
                   data'.pkgs[src][rel] = "not-affected"]_vars

\* a live phase 1 has closed the task of a DNE entry as Invalid, and the
\* phase 2 that followed has left the entry DNE
C32_Witness ==
    /\ pc = "phase3" /\ opt.update
    /\ \E rel \in {"xenial", "devel"} :
          /\ Synced("linux", rel)
          /\ <<"status", "linux", MapRelease(rel), "Invalid">> \in log
          /\ bug.tasks["linux"][MapRelease(rel)].status = "Invalid"
          /\ data.pkgs["linux"][rel] = "DNE"
          /\ store.pkgs["linux"][rel] = "DNE"


(***************************************************************************)
(* The dry run and the live run of one sync                                *)
(***************************************************************************)
\* bug resolution has found or filed the bug of the record (lines 785-810)
Went ==
    \/ Len(LpBugs(data)) = 1 /\ ~Mismatch(LpBugs(data))
    \/ LpBugs(data) = <<>> /\ <<"createBug", "", "", "">> \in log

\* the first sync of a record under --update --confirm-update has run dry,
\* has returned touched and has left the bug and the record as they were;
\* the update flag is on again (line 839 or line 844).  The state is the one
\* the dry run began in, with the flag on.
DryRunDone ==
    /\ opt.confirm_update /\ opt.update /\ fault = "none"
    /\ \/ pc = "sync" /\ pass = 2
       \/ pc = "exit" /\ pass = 1 /\ IsOpen(store) /\ Went
    /\ log \subseteq {<<"createBug", "", "", "">>}

\* lines 724-740: what sync_kernel_bug returns in the state it is asked in.
\* The passes are taken over the task map as it is, which is the map they
\* get whenever the provisioning returns false.
SyncTouched == Provisioned.refresh \/ sync_phases(World).touched

\* a provisioning that returns false has left the bug and the record alone
QuietProvisioning ==
    ~Provisioned.refresh => (Provisioned.w.bug = bug /\ Provisioned.w.data = data)

\* C33: with no failing call, the touched a dry sync returns is the touched
\* a live sync returns when it starts from the same bug, record and flags
C33_SameTouched ==
    DryRunDone => (QuietProvisioning /\ touched = SyncTouched)

\* the dry sync of a pending pair whose task is Triaged has returned true,
\* the answer was no, and the update flag is on again
C33_Witness ==
    /\ pc = "exit" /\ pass = 1 /\ run = 1
    /\ opt.confirm_update /\ opt.update /\ fault = "none"
    /\ made_changes /\ log = {}
    /\ Synced("linux", "xenial")
    /\ data.pkgs["linux"]["xenial"] = "pending"
    /\ bug.tasks["linux"]["xenial"].status = "Triaged"

Kinds == {"status", "importance", "description", "delete", "uct_state"}

\* the changes the dry sync has reported as wanted
Wanted == {e \in diag : e[1] \in Kinds}

\* the changes the passes of a live sync make
Applied == {e \in sync_phases(World).log \ log : e[1] \in Kinds}

\* C34: when the provisioning has nothing to add to the bug, the changes of
\* status, importance, description and record state and the task deletions
\* that a dry sync reports as wanted are exactly those a live sync makes
\* from the same bug and record; no change of a record state is reported
\* that the live sync does not make
C34_SameChanges ==
    (DryRunDone /\ ~Provisioned.refresh) => Wanted = Applied

\* C35: when a dry sync returns touched = false, a live sync from the same
\* bug and record writes nothing to Launchpad or to the record store, the
\* Bugs field of the record included
C35_TouchedCoversWrites ==
    (DryRunDone /\ ~touched) =>
        /\ Provisioned.w.log = log /\ Provisioned.w.store = store
        /\ sync_phases(World).log = log /\ sync_phases(World).store = store


(***************************************************************************)
(* A second provisioning                                                   *)
(***************************************************************************)
\* a live provisioning has just returned, the task map is built again; no
\* call has failed and the bug is on no broken list
LiveProvisioned ==
    /\ pc \in {"new", "phase1"}
    /\ opt.update /\ fault = "none"
    /\ bug.title \notin broken_approve_list

\* C36: a provisioning that follows at once on a live provisioning in which
\* no call failed, for a bug on no broken list, returns false: the first one
\* has left nothing to add, also for a package whose task it created
C36_OneRunConverges == LiveProvisioned => ~Provisioned.refresh


(***************************************************************************)
(* The record and the bug after a live sync                                *)
(***************************************************************************)
\* the state of a pair and the status of its task agree
Agree(state, status) ==
    /\ state = "released" => status = "Fix Released"
    /\ state = "DNE" => status = "Invalid"
    /\ state = "needs-triage" => status = "New"
    /\ status \in {"Confirmed", "Triaged", "In Progress"} => state = "needed"
    /\ status = "New" => state \in {"needed", "needs-triage"}

\* C37: when a live sync has gone through all its passes, the state of
\* every synced pair that is not deferred and the status of its task agree:
\* released goes with Fix Released, DNE with Invalid, needs-triage with New;
\* Confirmed, Triaged and In Progress go with needed, New with needed or
\* needs-triage; the record store holds the same state
C37_AgreementAfterRun ==
    (pc = "ret" /\ opt.update) =>
        \A src \in Packages, rel \in RecKeys :
            (Synced(src, rel) /\ data.pkgs[src][rel] # "deferred") =>
                /\ Agree(data.pkgs[src][rel], bug.tasks[src][MapRelease(rel)].status)
                /\ store.pkgs[src][rel] = data.pkgs[src][rel]

\* a live sync is through that pulled needed from the In Progress task of
\* a pair the record had as not-affected, beside a pair it left alone
C37_Witness ==
    /\ pc = "ret" /\ opt.update
    /\ Synced("linux", "xenial") /\ Synced("linux", "devel")
    /\ \E rel \in {"xenial", "devel"} :
          /\ bug.tasks["linux"][MapRelease(rel)].status = "In Progress"
          /\ <<"uct_state", "linux", rel, "needed">> \in log
          /\ data.pkgs["linux"][rel] = "needed"
          /\ store.pkgs["linux"][rel] = "needed"


(***************************************************************************)
(* Tasks deleted by the EOL sweep                                          *)
(***************************************************************************)
\* the tasks a live EOL sweep has deleted, according to the writes of w
DeletedIn(w) ==
    {p \in Packages \X Releases : <<"delete", p[1], p[2], "EoL">> \in w.log}

\* w with every task of D given a status and an importance no deleted task
\* has: a pass that reads or writes the handle of such a task ends in
\* another world than it does from w
Revived(w, D) ==
    [w EXCEPT !.bug.tasks =
        [src \in Packages |-> [r \in Releases |->
            IF <<src, r>> \in D
            THEN [status |-> "Confirmed", importance |-> "Undecided"]
            ELSE w.bug.tasks[src][r]]]]

\* two worlds are the same but for the tasks of D
SameBut(a, b, D) ==
    /\ [a EXCEPT !.bug = "-"] = [b EXCEPT !.bug = "-"]
    /\ [a.bug EXCEPT !.tasks = "-"] = [b.bug EXCEPT !.tasks = "-"]
    /\ \A src \in Packages, r \in Releases :
           <<src, r>> \notin D => a.bug.tasks[src][r] = b.bug.tasks[src][r]

\* the pass gives the same from w whatever the tasks of D hold, and leaves
\* the tasks of D as they are
Untouched(after, revived, w, D) ==
    /\ SameBut(after, revived, D)
    /\ \A p \in D : /\ after.bug.tasks[p[1]][p[2]] = w.bug.tasks[p[1]][p[2]]
                     /\ revived.bug.tasks[p[1]][p[2]].status = "Confirmed"
                     /\ revived.bug.tasks[p[1]][p[2]].importance = "Undecided"

\* C38: what the rest of phase 1, phase 2 and phase 3 do after a live EOL
\* sweep does not depend on the tasks the sweep has deleted, although the
\* task map still holds them: no pass reads the status or the importance
\* of a deleted task, and none writes them
C38_NoUseOfDeleted ==
    opt.update =>
        /\ pc = "phase1" =>
               \E w \in {EolSweep(World)} : \E D \in {DeletedIn(w)} :
                   Untouched(ForEach(Phase1Step, w, Entries(w.data)),
                             ForEach(Phase1Step, Revived(w, D), Entries(w.data)),
                             w, D)
        /\ pc = "phase2" =>
               \E D \in {DeletedIn(World)} :
                   Untouched(sync_from_bug_phase2(World),
                             sync_from_bug_phase2(Revived(World, D)), World, D)
        /\ pc = "phase3" =>
               \E D \in {DeletedIn(World)} :
                   Untouched(sync_to_bug_phase3(World),
                             sync_to_bug_phase3(Revived(World, D)), World, D)

\* a live sync is through: the sweep has deleted the lucid task of linux,
\* the map still holds it, the record has a state for linux in lucid, and
\* the passes have written the task of another release
C38_Witness ==
    /\ pc = "ret" /\ opt.update
    /\ <<"delete", "linux", "lucid", "EoL">> \in log
    /\ bug.tasks["linux"]["lucid"] = NoTask
    /\ "lucid" \in tasks["linux"]
    /\ HasState(data, "linux", "lucid")
    /\ data.pkgs["linux"]["lucid"] = "needed"
    /\ \E e \in log : e[1] = "status" /\ e[2] = "linux" /\ e[3] = "xenial"


(***************************************************************************)
(* The update flag                                                         *)
(***************************************************************************)
Handling == {"sync", "new", "phase1", "phase2", "phase3", "ret", "prompt"}

\* C39: the value the update flag has when a record is taken up is kept
\* while the record is handled and is the value of the flag when the record
\* is done, whether there was no prompt, the answer was no or the answer
\* was yes; a record that is passed over leaves the flag alone
C39_FlagRestored ==
    [][/\ (pc = "resolve" /\ pc' = "sync") => saved_update' = opt.update
       /\ (pc = "resolve" /\ pc' # "sync") => opt' = opt
       /\ (pc \in Handling) => saved_update' = saved_update
       /\ (pc \in Handling /\ pc' = "exit") => opt'.update = saved_update]_vars

\* without --update the answer to the prompt was yes, the second sync has
\* written to the bug, and the record is done with the flag off again
C39_Witness ==
    /\ pc = "exit" /\ pass = 2
    /\ opt.confirm_update /\ ~saved_update /\ ~opt.update
    /\ \E e \in log : e[1] = "status"

====
